---- MODULE Spec2Model ----
(***************************************************************************)
(* Portfolio-Insight backend: the Taiwan limit-stock scan, its price and   *)
(* time helpers and its fetch wrapper (portfolios/taiwan_stock_service.py),*)
(* the market session classifier (portfolios/stock_data_service.py) and    *)
(* the request rate limiter (portfolios/legal_stock_service.py, views.py), *)
(* as state machines.                                                      *)
(*                                                                         *)
(* Numbers.  Prices, changes and percentages are fixed-point integers in   *)
(* thousandths (110.00 is 110000, 9.9 % is 9900): the source computes in   *)
(* binary floating point, the model in exact decimal arithmetic.           *)
(* Strings are sequences of one-character strings, so that parsing and     *)
(* formatting are computed, character by character.                        *)
(* Dates are day numbers counted from a Monday (day 0); a datetime is a    *)
(* record [day, hour, minute, second].  time.time() is in tenths of a      *)
(* second.                                                                 *)
(***************************************************************************)
EXTENDS Integers, Sequences, FiniteSets, TLC

VARIABLES
    pc,             \* "call": the input is drawn, "done": the function has returned
    data,           \* the decoded JSON handed to _parse_limit_stocks_data
    result,         \* what _parse_limit_stocks_data / get_limit_stocks returned
    response,       \* what requests.get gave get_real_limit_stocks
    summary,        \* what get_taiwan_market_summary returned
    now,            \* the wall-clock reading of get_market_status
    market_status,  \* what get_market_status returned
    fp_tie,         \* where a binary quotient price / tick falls when the
                    \* decimal one is exactly halfway: "down" or "up"
    arg_price,      \* the price handed to get_price_tick / round_taiwan_price
    arg_other,      \* a second price, for comparing two calls
    arg_change,     \* the change of the row the price belongs to
    priced,         \* what the price functions returned
    estimate,       \* the HH:MM string _estimate_limit_time returned
    service,        \* which LegalStockService class the callers use
    clock,          \* time.time(), in tenths of a second
    last_request_time,  \* cls._last_request_time
    callers,        \* per thread: where it is in _rate_limit, and its locals
    returns,        \* history: the returns from _rate_limit, in order
    quote_request,  \* get_real_stock_data (views): symbol, API key, HTTP outcome
    quote_result,   \* what it returned
    watchlist,      \* the Watchlist table of the one user: rows and last id
    adding,         \* per request thread: the add request it is serving
    replies,        \* per request thread: the last Response it returned
    holdings,       \* the Holding table of the user's portfolio
    posted,         \* the last portfolio_holdings POST and the number served
    ws_clock,       \* the event loop's time, in seconds
    consumers,      \* per StockPriceConsumer: connection state and its task
    group,          \* the channels in the group 'stock_prices'
    inbox,          \* per consumer: the messages sent to its client, in order
    broadcasts      \* history: the group_send calls, in order

scanVars == <<data, result, response, summary>>
sessionVars == <<now, market_status>>
priceVars == <<arg_price, arg_other, arg_change, priced>>
quoteVars == <<quote_request, quote_result>>
watchVars == <<watchlist, adding, replies>>
holdVars == <<holdings, posted>>
wsVars == <<ws_clock, consumers, group, inbox, broadcasts>>
appVars == <<quoteVars, watchVars, holdVars, wsVars>>
otherVars == <<estimate, service, clock, last_request_time, callers, returns, appVars>>
vars == <<pc, data, result, response, summary, now, market_status, fp_tie,
         arg_price, arg_other, arg_change, priced, estimate,
         service, clock, last_request_time, callers, returns,
         quote_request, quote_result, watchlist, adding, replies,
         holdings, posted, ws_clock, consumers, group, inbox, broadcasts>>

\* Python's None where a datetime is expected (next_open, next_close).
None == [day |-> -1, hour |-> -1, minute |-> -1, second |-> -1]

Min(a, b) == IF a <= b THEN a ELSE b


(***************************************************************************)
(* Strings and Python's conversions                                        *)
(***************************************************************************)

Digit == <<"0", "1", "2", "3", "4", "5", "6", "7", "8", "9">>
IsDigit(c) == \E d \in 1..10 : Digit[d] = c
DigitVal(c) == (CHOOSE d \in 1..10 : Digit[d] = c) - 1
AllDigits(s) == \A i \in 1..Len(s) : IsDigit(s[i])

\* The value of a sequence of decimal digits (0 for the empty one).
RECURSIVE Number(_)
Number(ds) ==
    IF ds = <<>> THEN 0
    ELSE Number(SubSeq(ds, 1, Len(ds) - 1)) * 10 + DigitVal(ds[Len(ds)])

\* The decimal digits of n >= 0.
RECURSIVE Decimal(_)
Decimal(n) ==
    IF n < 10 THEN <<Digit[n + 1]>>
    ELSE Decimal(n \div 10) \o <<Digit[(n % 10) + 1]>>

\* str.replace(ch, ''): every occurrence of ch removed.
Remove(s, ch) == SelectSeq(s, LAMBDA c : c # ch)

\* Fixed point: three fractional digits.
Scale == 10 * 10 * 10

\* The outcome of a conversion: a value, or ValueError raised.
ValueError == [ok |-> FALSE, v |-> 0]
Value(n) == [ok |-> TRUE, v |-> n]

\* float(s) for s over the characters 0-9 . , + - % X: an optional sign,
\* then digits with at most one point and at least one digit; anything else
\* raises ValueError.  The value is in thousandths (the inputs carry at most
\* three fractional digits).
float(s) ==
    LET signed == s # <<>> /\ s[1] \in {"+", "-"}
        body   == IF signed THEN Tail(s) ELSE s
        dots   == {i \in 1..Len(body) : body[i] = "."}
        dot    == IF dots = {} THEN Len(body) + 1 ELSE CHOOSE i \in dots : TRUE
        ip     == SubSeq(body, 1, dot - 1)
        fp     == SubSeq(body, dot + 1, Len(body))
        fp3    == SubSeq(fp \o <<"0", "0", "0">>, 1, 3)
        mag    == Number(ip) * Scale + Number(fp3)
    IN  IF \/ Cardinality(dots) > 1
           \/ ~AllDigits(ip)
           \/ ~AllDigits(fp)
           \/ (ip = <<>> /\ fp = <<>>)
        THEN ValueError
        ELSE Value(IF signed /\ s[1] = "-" THEN -mag ELSE mag)

\* int(s) over the same characters: an optional sign and at least one digit.
int(s) ==
    LET signed == s # <<>> /\ s[1] \in {"+", "-"}
        body   == IF signed THEN Tail(s) ELSE s
    IN  IF body = <<>> \/ ~AllDigits(body)
        THEN ValueError
        ELSE Value(IF signed /\ s[1] = "-" THEN -Number(body) ELSE Number(body))

\* Commas put between groups of three digits, from the right.
RECURSIVE Grouped(_)
Grouped(ds) ==
    IF Len(ds) <= 3 THEN ds
    ELSE Grouped(SubSeq(ds, 1, Len(ds) - 3)) \o <<",">> \o SubSeq(ds, Len(ds) - 2, Len(ds))

\* f"{n:,}"
FormatThousands(n) ==
    IF n < 0 THEN <<"-">> \o Grouped(Decimal(-n)) ELSE Grouped(Decimal(n))

\* int(x) of a value x given in thousandths: truncation toward zero.
Truncate(x) == IF x < 0 THEN -((-x) \div Scale) ELSE x \div Scale

(***************************************************************************)
(* TaiwanStockService: price ticks                                         *)
(***************************************************************************)

\* PRICE_TICKS: (min_price, max_price, tick), in thousandths; the last band
\* has no upper bound (float('inf')).
Inf == -1
PRICE_TICKS_Overlapping == <<
    <<0,       10000,   10>>,
    <<10000,   60000,   50>>,
    <<50000,   100000,  100>>,
    <<100000,  500000,  500>>,
    <<500000,  1000000, 1000>>,
    <<1000000, Inf,     5000>> >>
PRICE_TICKS_OffGridBoundary == <<
    <<0,       10000,   10>>,
    <<10000,   50000,   30>>,
    <<50000,   100000,  100>>,
    <<100000,  500000,  500>>,
    <<500000,  1000000, 1000>>,
    <<1000000, Inf,     5000>> >>
PRICE_TICKS == <<
    <<0,       10000,   10>>,
    <<10000,   50000,   50>>,
    <<50000,   100000,  100>>,
    <<100000,  500000,  500>>,
    <<500000,  1000000, 1000>>,
    <<1000000, Inf,     5000>> >>

DefaultTick == 5000

\* min_price <= price < max_price
InBandUpperInclusive(band, price) ==
    band[1] < price /\ (band[2] = Inf \/ price <= band[2])
InBand(band, price) ==
    band[1] <= price /\ (band[2] = Inf \/ price < band[2])

\* get_price_tick: the tick of the first band holding the price, else 5.0.
get_price_tick(price) ==
    LET hits == {i \in 1..Len(PRICE_TICKS) : InBand(PRICE_TICKS[i], price)}
    IN  IF hits = {} THEN DefaultTick
        ELSE PRICE_TICKS[CHOOSE i \in hits : \A j \in hits : i <= j][3]

\* Python 3's round(x) of the quotient num / den (den > 0, num >= 0): the
\* nearest integer, a tie going to the even one.
RoundHalfEven(num, den) ==
    LET q == num \div den
        r == num % den
    IN  IF 2 * r < den THEN q
        ELSE IF 2 * r > den THEN q + 1
        ELSE IF q % 2 = 0 THEN q ELSE q + 1

\* A tick that is a binary fraction (0.5, 1.0, 5.0): price / tick is then
\* computed exactly.  The ticks 0.01, 0.05 and 0.1 have no exact binary
\* representation.
IsBinaryFraction(tick) == tick % 125 = 0

Ties == {"down", "up"}

\* round(price / tick) as the source computes it in binary floating point.
\* Off a tie the nearest integer; on an exact quotient Python's half-to-even;
\* a decimal tie over an inexact tick has a binary quotient slightly below
\* or above .5 (10.075 / 0.05 is 201.49999999999997, 1.245 / 0.01 is
\* 124.50000000000001) and goes to either neighbour: fp_tie.
RoundQuotientFloor(price, tick) == price \div tick
RoundQuotient(price, tick) ==
    IF 2 * (price % tick) = tick /\ ~IsBinaryFraction(tick)
    THEN IF fp_tie = "up" THEN (price \div tick) + 1 ELSE price \div tick
    ELSE RoundHalfEven(price, tick)

\* round_taiwan_price: 0 for price <= 0, else round(price / tick) * tick.
round_taiwan_price_unrounded(price) == IF price <= 0 THEN 0 ELSE price
round_taiwan_price_unguarded(price) ==
    RoundQuotient(price, get_price_tick(price)) * get_price_tick(price)
round_taiwan_price(price) ==
    IF price <= 0 THEN 0
    ELSE LET tick == get_price_tick(price)
         IN  RoundQuotient(price, tick) * tick

(***************************************************************************)
(* TaiwanStockService._estimate_limit_time                                 *)
(***************************************************************************)

\* random.randint(a, b) and random.choice(seq), for the raw draw r >= 0.
randint(a, b, r) == a + (r % (b - a + 1))
choice(seq, r) == seq[1 + (r % Len(seq))]

SessionFirstHour == 9
SessionLastHour == 13
SessionLastMinute == 30
LastMinuteOfHour == 59

\* f"{hour:02d}:{minute:02d}"
Pad2(n) == IF n < 10 THEN <<"0">> \o Decimal(n) ELSE Decimal(n)
FormatHHMM(t) == Pad2(t.hour) \o <<":">> \o Pad2(t.minute)

estimate_limit_time_any_minute(t, rh, rm) ==
    IF SessionFirstHour <= t.hour /\ t.hour <= SessionLastHour
    THEN [hour |-> randint(SessionFirstHour, t.hour, rh),
          minute |-> randint(0, LastMinuteOfHour, rm)]
    ELSE [hour |-> choice(<<9, 10, 11, 12, 13>>, rh),
          minute |-> randint(0, SessionLastMinute, rm)]

\* _estimate_limit_time for the clock reading t = [hour, minute] and the raw
\* draws rh (the hour) and rm (the minute); the result is [hour, minute],
\* which the source formats as HH:MM.
estimate_limit_time(t, rh, rm) ==
    IF SessionFirstHour <= t.hour /\ t.hour <= SessionLastHour
    THEN IF t.hour = SessionLastHour /\ t.minute > SessionLastMinute
         THEN [hour |-> SessionLastHour, minute |-> SessionLastMinute]
         ELSE LET max_hour   == Min(t.hour, SessionLastHour)
                  max_minute == IF max_hour = t.hour THEN t.minute ELSE LastMinuteOfHour
                  hour       == randint(SessionFirstHour, max_hour, rh)
                  minute     == IF hour = max_hour THEN randint(0, max_minute, rm)
                                ELSE IF hour = SessionLastHour
                                THEN randint(0, SessionLastMinute, rm)
                                ELSE randint(0, LastMinuteOfHour, rm)
              IN  [hour |-> hour, minute |-> minute]
    ELSE LET hour   == choice(<<9, 10, 11, 12, 13>>, rh)
             minute == IF hour = SessionLastHour
                       THEN randint(0, SessionLastMinute, rm)
                       ELSE randint(0, LastMinuteOfHour, rm)
         IN  [hour |-> hour, minute |-> minute]

(***************************************************************************)
(* TaiwanStockService._parse_limit_stocks_data                             *)
(***************************************************************************)

\* A JSON value in a row: a string, or null (Python's None).
Str(chars) == [t |-> "str", s |-> chars]
Null == [t |-> "null", s |-> <<>>]

\* A row of the table: a JSON array of values (kind "list"), or a value that
\* is not a sequence (kind "null").
ListRow(fields) == [kind |-> "list", f |-> fields]
NullRow == [kind |-> "null", f |-> <<>>]

\* stock_row[k], Python's index k counted from 0.
At(row, k) == row.f[k + 1]

\* `x in ['--', '-', '']`
Sentinels == {<<"-", "-">>, <<"-">>, <<>>}
IsSentinel(x) == x.t = "str" /\ x.s \in Sentinels

\* The thresholds of the classification, in thousandths of a percent point.
NearLimit == 9500
HardLimit == 9900

\* `change_percent >= 9.5`, `change_percent >= 9.9`,
\* `change_percent <= -9.5`, `change_percent <= -9.9`
UpEligibleStrict(cp) == cp > NearLimit
UpEligible(cp) == cp >= NearLimit
IsLimitUp(cp) == cp >= HardLimit
DownEligibleStrict(cp) == cp < -NearLimit
DownEligible(cp) == cp <= -NearLimit
IsLimitDown(cp) == cp <= -HardLimit

\* The display labels: '漲停', '接近漲停', '跌停', '接近跌停'.
StatusUp(cp) == IF IsLimitUp(cp) THEN "limit_up" ELSE "near_limit_up"
StatusDown(cp) == IF IsLimitDown(cp) THEN "limit_down" ELSE "near_limit_down"

\* f'{stock_code}.TW'
Symbol(code) ==
    (IF code.t = "str" THEN code.s ELSE <<"N", "o", "n", "e">>) \o <<".", "T", "W">>

NoTime == [hour |-> 0, minute |-> 0]
NoEntry == [code |-> Null, name |-> Null, symbol |-> <<>>, current_price |-> 0,
            reference_price |-> 0, change |-> 0, change_percent |-> 0,
            volume |-> <<>>, turnover |-> <<>>, limit_time |-> NoTime,
            is_limit |-> FALSE, limit_type |-> "", status |-> ""]

\* What the body of the loop does with one row.
Continue == [kind |-> "continue", entry |-> NoEntry]   \* `continue`, also from `except (ValueError, IndexError)`
Raise == [kind |-> "raise", entry |-> NoEntry]         \* an exception the inner `except` does not catch
Unclassified == [kind |-> "none", entry |-> NoEntry]   \* parsed, neither branch taken
Classified(kind, entry) == [kind |-> kind, entry |-> entry]

\* previous_price = round_taiwan_price(current_price - change)
PreviousPriceFromRawPrice(current_price, change) == current_price - change
PreviousPrice(current_price, change) == round_taiwan_price(current_price - change)

\* The dictionary appended for a classified row.
Entry(row, price, change, cp, volume, limit_time, up) ==
    [code            |-> At(row, 0),
     name            |-> At(row, 1),
     symbol          |-> Symbol(At(row, 0)),
     current_price   |-> round_taiwan_price(price),
     reference_price |-> PreviousPrice(round_taiwan_price(price), change),
     change          |-> change,
     change_percent  |-> cp,
     volume          |-> FormatThousands(volume),
     turnover        |-> FormatThousands(Truncate(volume * round_taiwan_price(price))),
     limit_time      |-> limit_time,
     is_limit        |-> IF up THEN IsLimitUp(cp) ELSE IsLimitDown(cp),
     limit_type      |-> IF up THEN "up" ELSE "down",
     status          |-> IF up THEN StatusUp(cp) ELSE StatusDown(cp)]

\* The loop body for one row (lines 223-284); t, rh, rm are the clock
\* reading and the draws of the _estimate_limit_time call it may make.
\* Calling len() on a row that is no sequence raises TypeError, and calling
\* .replace on a value that is no string raises AttributeError: neither is
\* caught by `except (ValueError, IndexError)`.
ParseRow(row, t, rh, rm) ==
    IF row.kind # "list" THEN Raise
    ELSE IF Len(row.f) < 9 THEN Continue
    ELSE IF Len(row.f) < 12 THEN Continue              \* IndexError at stock_row[10] or [11]
    ELSE
    LET current_price_str  == At(row, 8)
        change_str         == At(row, 10)
        change_percent_str == At(row, 11)
        volume_str         == At(row, 2)
        current_price  == float(Remove(current_price_str.s, ","))
        change_percent == float(Remove(Remove(change_percent_str.s, "%"), "+"))
        change         == float(Remove(Remove(change_str.s, ","), "+"))
        volume         == IF IsSentinel(volume_str) THEN Value(0)
                          ELSE int(Remove(volume_str.s, ","))
    IN  IF IsSentinel(current_price_str) \/ IsSentinel(change_percent_str) THEN Continue
        ELSE IF current_price_str.t # "str" THEN Raise
        ELSE IF ~current_price.ok THEN Continue
        ELSE IF change_percent_str.t # "str" THEN Raise
        ELSE IF ~change_percent.ok THEN Continue
        ELSE IF change_str.t # "str" THEN Raise
        ELSE IF ~change.ok THEN Continue
        ELSE IF ~IsSentinel(volume_str) /\ volume_str.t # "str" THEN Raise
        ELSE IF ~volume.ok THEN Continue
        ELSE IF UpEligible(change_percent.v)
        THEN Classified("up", Entry(row, current_price.v, change.v, change_percent.v,
                                volume.v, estimate_limit_time(t, rh, rm), TRUE))
        ELSE IF DownEligible(change_percent.v)
        THEN Classified("down", Entry(row, current_price.v, change.v, change_percent.v,
                                  volume.v, estimate_limit_time(t, rh, rm), FALSE))
        ELSE Unclassified

\* The draws of the random source with seed `seed` for the row at index i.
DrawHour(seed, i) == seed + i
DrawMinute(seed, i) == 7 * seed + 13 * i

\* The `for stock_row in stocks_data` loop from row i on, with the two lists
\* built so far; `raised` when a row raised out of the loop.
RECURSIVE Loop(_, _, _, _, _, _)
Loop(rows, i, ups, downs, t, seed) ==
    IF i > Len(rows) THEN [raised |-> FALSE, ups |-> ups, downs |-> downs]
    ELSE LET got == ParseRow(rows[i], t, DrawHour(seed, i), DrawMinute(seed, i))
         IN  IF got.kind = "raise" THEN [raised |-> TRUE, ups |-> <<>>, downs |-> <<>>]
             ELSE Loop(rows, i + 1,
                       IF got.kind = "up" THEN ups \o <<got.entry>> ELSE ups,
                       IF got.kind = "down" THEN downs \o <<got.entry>> ELSE downs,
                       t, seed)

\* list.sort(key = change_percent, reverse = reverse): a stable sort, equal
\* keys keeping the order they came in.
Before(a, b, reverse) ==
    IF reverse THEN a.change_percent > b.change_percent
    ELSE a.change_percent < b.change_percent

Insert(s, e, reverse) ==
    LET later == {j \in 1..Len(s) : Before(e, s[j], reverse)}
        k     == IF later = {} THEN Len(s) + 1
                 ELSE CHOOSE j \in later : \A m \in later : j <= m
    IN  SubSeq(s, 1, k - 1) \o <<e>> \o SubSeq(s, k, Len(s))

RECURSIVE sort_by_change_percent(_, _)
sort_by_change_percent(s, reverse) ==
    IF s = <<>> THEN <<>>
    ELSE Insert(sort_by_change_percent(SubSeq(s, 1, Len(s) - 1), reverse),
                s[Len(s)], reverse)

\* The sort of limit_up_stocks (reverse = True) and of limit_down_stocks.
SortUp(s) == sort_by_change_percent(s, TRUE)
SortDown(s) == sort_by_change_percent(s, FALSE)

\* `[:20]`
TopN == 20
FirstTopNPlusOne(s) == SubSeq(s, 1, Min(Len(s), TopN + 1))
FirstTopN(s) == SubSeq(s, 1, Min(Len(s), TopN))

\* scan_summary.total_scanned = len(stocks_data)
TotalScannedClassifiedOnly(rows, ups, downs) == Len(ups) + Len(downs)
TotalScanned(rows, ups, downs) == Len(rows)

Summary(total, ups, downs) ==
    [total_scanned |-> total, limit_up_found |-> ups, limit_down_found |-> downs]

\* _get_backup_limit_data: the explicit no-data result, marked by 'error'.
\* (The clock readings last_updated, market_date and scan_time of both
\* results are left out.)
get_backup_limit_data ==
    [returned |-> TRUE, error |-> TRUE, limit_up |-> <<>>, limit_down |-> <<>>,
     data_source |-> "backup", scan_summary |-> Summary(0, 0, 0)]

\* `'data9' not in data`
TableAbsentOrEmpty(d) == d.table = "absent" \/ d.rows = <<>>
TableAbsent(d) == d.table = "absent"

\* _parse_limit_stocks_data(data), with the clock reading and the seed of
\* the random source its _estimate_limit_time calls see.
parse_limit_stocks_data(d, t, seed) ==
    IF TableAbsent(d) THEN get_backup_limit_data
    ELSE LET done  == Loop(d.rows, 1, <<>>, <<>>, t, seed)
             ups   == SortUp(done.ups)
             downs == SortDown(done.downs)
         IN  IF done.raised THEN get_backup_limit_data    \* `except Exception`
             ELSE [returned |-> TRUE, error |-> FALSE,
                   limit_up |-> FirstTopN(ups), limit_down |-> FirstTopN(downs),
                   data_source |-> "twse",
                   scan_summary |-> Summary(TotalScanned(d.rows, ups, downs),
                                            Len(ups), Len(downs))]

(***************************************************************************)
(* The inputs of the scan                                                  *)
(***************************************************************************)

Filler == Str(<<"0">>)
NameField == Str(<<"n">>)

\* A twelve-column row of the table: code (0), name (1), volume (2),
\* closing price (8), change (10) and change-percent (11); the code is set
\* by WithCode.
Row(volume, price, change, percent) ==
    ListRow(<<Filler, NameField, volume, Filler, Filler, Filler, Filler, Filler,
              price, Filler, change, percent>>)

\* the row of the spec's scenario: at the hard limit up
RowUpHard == Row(Str(<<"1", ",", "0", "0", "0">>), Str(<<"1", "1", "0", ".", "0", "0">>), Str(<<"1", "0", ".", "0", "0">>), Str(<<"9", ".", "9", "0", "%">>))
\* approaching the limit up; no volume
RowUpNear == Row(Str(<<"-", "-">>), Str(<<"5", "2", ".", "8", "0">>), Str(<<"+", "4", ".", "6", "0">>), Str(<<"+", "9", ".", "5", "4", "%">>))
\* exactly 9.5; a change that is no multiple of the tick
RowUpAtNear == Row(Str(<<"2", ",", "5", "0", "0">>), Str(<<"1", "0", ".", "4", "5">>), Str(<<"0", ".", "0", "3">>), Str(<<"9", ".", "5", "%">>))
\* just below the hard limit up
RowUpBelowHard == Row(Str(<<"5", "0", "0">>), Str(<<"2", "3", ".", "0", "0">>), Str(<<"2", ".", "0", "5">>), Str(<<"9", ".", "8", "9", "%">>))
\* a change larger than the price
RowUpOverPrice == Row(Str(<<"1", ",", "0", "0", "0">>), Str(<<"1", "1", "0", ".", "0", "0">>), Str(<<"1", "2", "0", ".", "0", "0">>), Str(<<"1", "0", ".", "0", "0", "%">>))
\* just below 9.5: not classified
RowBelowNear == Row(Str(<<"1", ",", "0", "0", "0">>), Str(<<"3", "0", ".", "0", "0">>), Str(<<"2", ".", "6", "0">>), Str(<<"9", ".", "4", "9", "%">>))
\* at the hard limit down
RowDownHard == Row(Str(<<"1", ",", "0", "0", "0">>), Str(<<"9", "0", ".", "0", "0">>), Str(<<"-", "1", "0", ".", "0", "0">>), Str(<<"-", "9", ".", "9", "0", "%">>))
\* exactly -9.5
RowDownAtNear == Row(Str(<<"3", "0", "0">>), Str(<<"4", "5", ".", "2", "5">>), Str(<<"-", "4", ".", "7", "5">>), Str(<<"-", "9", ".", "5", "0", "%">>))
\* just above the hard limit down
RowDownAboveHard == Row(Str(<<"3", "0", "0">>), Str(<<"4", "5", ".", "2", "5">>), Str(<<"-", "4", ".", "9", "5">>), Str(<<"-", "9", ".", "8", "9", "%">>))
\* just above -9.5: not classified
RowAboveNear == Row(Str(<<"3", "0", "0">>), Str(<<"4", "5", ".", "2", "5">>), Str(<<"-", "4", ".", "7", "0">>), Str(<<"-", "9", ".", "4", "9", "%">>))
\* unchanged
RowFlat == Row(Str(<<"1", ",", "0", "0", "0">>), Str(<<"6", "0", "0", ".", "0", "0">>), Str(<<"0", ".", "0", "0">>), Str(<<"0", ".", "0", "0", "%">>))
\* the spec's placeholder row
RowSentinelAll == Row(Str(<<"-", "-">>), Str(<<"-", "-">>), Str(<<"-", "-">>), Str(<<"-", "-">>))
\* sentinel change-percent '-'
RowSentinelPercent == Row(Str(<<"1", ",", "0", "0", "0">>), Str(<<"1", "1", "0", ".", "0", "0">>), Str(<<"1", "0", ".", "0", "0">>), Str(<<"-">>))
\* sentinel price ''
RowEmptyPrice == Row(Str(<<"1", ",", "0", "0", "0">>), Str(<<>>), Str(<<"1", "0", ".", "0", "0">>), Str(<<"9", ".", "9", "0", "%">>))
\* a price that is no number
RowNonNumericPrice == Row(Str(<<"1", ",", "0", "0", "0">>), Str(<<"X">>), Str(<<"1", "0", ".", "0", "0">>), Str(<<"9", ".", "9", "0", "%">>))
\* a change-percent that is no number
RowNonNumericPercent == Row(Str(<<"1", ",", "0", "0", "0">>), Str(<<"1", "1", "0", ".", "0", "0">>), Str(<<"1", "0", ".", "0", "0">>), Str(<<"X", "%">>))
\* a change that is no number
RowBadChange == Row(Str(<<"1", ",", "0", "0", "0">>), Str(<<"1", "1", "0", ".", "0", "0">>), Str(<<"-", "-">>), Str(<<"9", ".", "9", "0", "%">>))
\* a volume that is no integer
RowBadVolume == Row(Str(<<"1", ".", "5">>), Str(<<"1", "1", "0", ".", "0", "0">>), Str(<<"1", "0", ".", "0", "0">>), Str(<<"9", ".", "9", "0", "%">>))
\* a price that is null
RowNullPrice == Row(Str(<<"1", ",", "0", "0", "0">>), Null, Str(<<"1", "0", ".", "0", "0">>), Str(<<"9", ".", "9", "0", "%">>))
\* a change that is null
RowNullChange == Row(Str(<<"1", ",", "0", "0", "0">>), Str(<<"1", "1", "0", ".", "0", "0">>), Null, Str(<<"-", "9", ".", "9", "0", "%">>))
\* a row of five columns, and one of eleven (no change-percent column)
RowShort == ListRow(<<Filler, NameField, Filler, Filler, Filler>>)
RowNoPercent == ListRow(SubSeq(RowUpHard.f, 1, 11))

\* The rows the input tables are made of; the last three hold a value that
\* is no string, or are no sequence.
Vocabulary == <<
    RowUpHard, RowUpNear, RowUpAtNear, RowUpBelowHard,
    RowUpOverPrice, RowBelowNear, RowDownHard, RowDownAtNear,
    RowDownAboveHard, RowAboveNear, RowFlat, RowSentinelAll,
    RowSentinelPercent, RowEmptyPrice, RowNonNumericPrice, RowNonNumericPercent,
    RowBadChange, RowBadVolume, RowNullPrice, RowNullChange,
    RowShort, RowNoPercent, NullRow >>

\* Every row of an input table carries the code of its position.
CodeAt(i) == Str(Decimal(2300 + i))
WithCode(row, i) ==
    IF row.kind = "list" THEN [row EXCEPT !.f[1] = CodeAt(i)] ELSE row

\* Bounds: every table of at most MaxRows rows over the vocabulary, and the
\* tables of LongFrom..MaxLong rows that repeat one of three patterns.
MaxRows == 2
LongFrom == 19
MaxLong == 25

PatternUps == <<RowUpHard, RowUpNear, RowUpAtNear, RowUpBelowHard, RowUpOverPrice>>
PatternDowns == <<RowDownAtNear, RowDownHard, RowDownAboveHard>>
PatternMixed == <<RowUpNear, RowDownHard, RowSentinelAll, RowUpHard, RowFlat, RowDownAtNear>>
Patterns == {PatternUps, PatternDowns, PatternMixed}

ShortTable(n, pick) == [i \in 1..n |-> WithCode(Vocabulary[pick[i]], i)]
LongTable(n, pat) == [i \in 1..n |-> WithCode(pat[1 + ((i - 1) % Len(pat))], i)]

Table(rows) == [table |-> "list", rows |-> rows]
NoData == [table |-> "absent", rows |-> <<>>]

\* d is one of the inputs: no table at all, a short table or a long one.
IsInput(d) ==
    \/ d = NoData
    \/ \E n \in 0..MaxRows : \E pick \in [1..n -> 1..Len(Vocabulary)] :
          d = Table(ShortTable(n, pick))
    \/ \E n \in LongFrom..MaxLong : \E pat \in Patterns :
          d = Table(LongTable(n, pat))

\* The clock readings and the seeds of the random source drawn for a scan.
ScanClocks == {[hour |-> 10, minute |-> 15], [hour |-> 20, minute |-> 0]}
Seeds == {0, 3}

\* requests.get raised (timeout, connection error): there is no response.
Raised == [raised |-> TRUE, status_code |-> 0, json |-> "invalid"]
NoResponse == Raised

\* `response.status_code == 200`
StatusIgnored(resp) == TRUE
StatusOk(resp) == resp.status_code = 200

\* get_real_limit_stocks: the whole body is inside try / except Exception;
\* a request that raises, a status other than 200 and a body response.json()
\* raises on all end in _get_backup_limit_data().
get_real_limit_stocks(resp, d, t, seed) ==
    IF resp.raised THEN get_backup_limit_data
    ELSE IF StatusOk(resp)
         THEN IF resp.json = "invalid" THEN get_backup_limit_data
              ELSE parse_limit_stocks_data(d, t, seed)
         ELSE get_backup_limit_data

\* get_taiwan_market_summary, for what get_limit_stocks() returned: the
\* limit_stocks block and scan_summary.  (get_taiwan_indices and
\* _get_market_status catch their own exceptions, so the try block returns;
\* the index and clock fields of the summary are left out.)
get_taiwan_market_summary_counting_found(limit_data) ==
    [returned |-> TRUE,
     limit_up_count |-> limit_data.scan_summary.limit_up_found,
     limit_down_count |-> limit_data.scan_summary.limit_down_found,
     limit_up_stocks |-> limit_data.limit_up,
     limit_down_stocks |-> limit_data.limit_down,
     scan_summary |-> limit_data.scan_summary]
get_taiwan_market_summary(limit_data) ==
    [returned |-> TRUE,
     limit_up_count |-> Len(limit_data.limit_up),
     limit_down_count |-> Len(limit_data.limit_down),
     limit_up_stocks |-> limit_data.limit_up,
     limit_down_stocks |-> limit_data.limit_down,
     scan_summary |-> limit_data.scan_summary]

NoSummary == [returned |-> FALSE, limit_up_count |-> 0, limit_down_count |-> 0,
              limit_up_stocks |-> <<>>, limit_down_stocks |-> <<>>,
              scan_summary |-> Summary(0, 0, 0)]

NoResult == [returned |-> FALSE, error |-> FALSE, limit_up |-> <<>>, limit_down |-> <<>>,
             data_source |-> "", scan_summary |-> Summary(0, 0, 0)]

(***************************************************************************)
(* StockDataService.get_market_status                                      *)
(***************************************************************************)

\* Bounds of the clock readings drawn for get_market_status.
MaxDay == 13
Minutes == {0, 29, 30, 59}
Seconds == {0, 41}

DateTimes == [day : 0..MaxDay, hour : 0..23, minute : Minutes, second : Seconds]

\* datetime.weekday(): 0 = Monday .. 6 = Sunday.
weekday(dt) == dt.day % 7

\* dt + timedelta(days = n)
PlusDays(dt, n) == [dt EXCEPT !.day = dt.day + n]

\* dt.replace(hour = h, minute = m, second = 0, microsecond = 0)
Replace(dt, h, m) == [dt EXCEPT !.hour = h, !.minute = m, !.second = 0]

\* The session open and close wall-clock times the function writes into
\* next_open and next_close.
OpenHour == 13
OpenMinute == 30
CloseHour == 21
CloseMinute == 0

\* `13 <= hour < 21`
InSessionHours(hour) == OpenHour <= hour /\ hour < CloseHour

\* The weekend branch: days_until_monday = 7 - weekday.
WeekendDaysUntilMondayOffByOne(wd) == 6 - wd
WeekendDaysUntilMonday(wd) == 7 - wd

\* The roll-over after the close: days_until_monday = 7 - next_day.weekday().
RolloverDaysUntilMondaySkipsNothing(wd) == 0
RolloverDaysUntilMonday(wd) == 7 - wd

\* `if hour < 13 ... elif hour >= 21 ...`: next_open on a trading day.
NextOpenTradingDay(dt) ==
    IF dt.hour < OpenHour
    THEN Replace(dt, OpenHour, OpenMinute)
    ELSE IF dt.hour >= CloseHour
    THEN LET next_day == PlusDays(dt, 1)
         IN  IF weekday(next_day) < 5
             THEN Replace(next_day, OpenHour, OpenMinute)
             ELSE Replace(PlusDays(next_day, RolloverDaysUntilMonday(weekday(next_day))),
                          OpenHour, OpenMinute)
    ELSE None

\* The dictionary get_market_status returns for the clock reading dt.
MarketStatus(dt) ==
    IF weekday(dt) < 5
    THEN [is_open     |-> InSessionHours(dt.hour),
          next_open   |-> NextOpenTradingDay(dt),
          next_close  |-> IF InSessionHours(dt.hour)
                          THEN Replace(dt, CloseHour, CloseMinute) ELSE None,
          trading_day |-> TRUE]
    ELSE [is_open     |-> FALSE,
          next_open   |-> Replace(PlusDays(dt, WeekendDaysUntilMonday(weekday(dt))),
                                  OpenHour, OpenMinute),
          next_close  |-> None,
          trading_day |-> FALSE]

NoStatus == [is_open |-> FALSE, next_open |-> None, next_close |-> None,
             trading_day |-> FALSE]

(***************************************************************************)
(* views.LegalStockService.get_real_stock_data                             *)
(***************************************************************************)

\* str.upper() and str.strip(), over letters, digits, '.', '$' and ' '.
LowerCase == <<"a", "b", "c", "d", "e", "f", "g", "h", "i", "j", "k", "l", "m",
               "n", "o", "p", "q", "r", "s", "t", "u", "v", "w", "x", "y", "z">>
UpperCase == <<"A", "B", "C", "D", "E", "F", "G", "H", "I", "J", "K", "L", "M",
               "N", "O", "P", "Q", "R", "S", "T", "U", "V", "W", "X", "Y", "Z">>
IsLower(c) == \E k \in 1..26 : LowerCase[k] = c
IsUpper(c) == \E k \in 1..26 : UpperCase[k] = c
UpperChar(c) ==
    IF IsLower(c) THEN UpperCase[CHOOSE k \in 1..26 : LowerCase[k] = c] ELSE c
upper(s) == [k \in 1..Len(s) |-> UpperChar(s[k])]

RECURSIVE lstrip(_)
lstrip(s) == IF s # <<>> /\ s[1] = " " THEN lstrip(Tail(s)) ELSE s
RECURSIVE rstrip(_)
rstrip(s) ==
    IF s # <<>> /\ s[Len(s)] = " " THEN rstrip(SubSeq(s, 1, Len(s) - 1)) ELSE s
strip(s) == rstrip(lstrip(s))

\* s.endswith(suffix)
endswith(s, suffix) ==
    Len(s) >= Len(suffix) /\ SubSeq(s, Len(s) - Len(suffix) + 1, Len(s)) = suffix

\* str.isdigit(): at least one character, all of them digits.
isdigit(s) == s # <<>> /\ AllDigits(s)

\* A key that the JSON object does not have.
Missing == [t |-> "missing", s |-> <<>>]

\* round(x, 2) of a value in thousandths.
Round2(v) ==
    IF v >= 0 THEN RoundHalfEven(v, 10) * 10 ELSE -(RoundHalfEven(-v, 10) * 10)

\* _get_enhanced_mock_data(symbol): the fields that are not random draws.
get_enhanced_mock_data(symbol) ==
    [outcome |-> "returned",
     api_status |-> "mock_enhanced",
     symbol |-> upper(symbol),
     exchange |-> IF endswith(upper(symbol), <<".", "T", "W">>) THEN "TWSE"
                   ELSE IF endswith(upper(symbol), <<".", "H", "K">>) THEN "HKSE"
                   ELSE "NASDAQ",
     current_price |-> 0, change |-> 0, change_percent |-> 0, volume |-> 0]

\* `not api_key or api_key == 'YOUR_API_KEY_HERE'`
KeyAlwaysConfigured(api_key) == TRUE
KeyConfigured(api_key) == api_key = "set"

\* The parsing of data['Global Quote']: the statements in their order, each
\* of which may raise (KeyError for a missing key, ValueError for a string
\* that is no number, AttributeError / TypeError for a null); every
\* exception is caught by one of the three handlers, which all return the
\* mock data.
QuoteParses(q) ==
    /\ q.percent.t # "null"
    /\ float(Remove(IF q.percent.t = "missing" THEN <<"0", "%">> ELSE q.percent.s, "%")).ok
    /\ q.sym.t = "str"
    /\ q.price.t = "str" /\ float(q.price.s).ok
    /\ q.change.t = "str" /\ float(q.change.s).ok
    /\ q.volume.t = "str"

\* get_real_stock_data(symbol) of views.LegalStockService, for the API key
\* of the settings and what requests.get and response.json() give.
get_real_stock_data(symbol, api_key, http) ==
    IF ~KeyConfigured(api_key) THEN get_enhanced_mock_data(symbol)
    ELSE IF http.raised THEN get_enhanced_mock_data(symbol)
    ELSE IF http.status_code # 200 THEN get_enhanced_mock_data(symbol)
    ELSE IF http.body # "quote" THEN get_enhanced_mock_data(symbol)
    ELSE IF http.quote.sym.t = "missing" THEN get_enhanced_mock_data(symbol)
    ELSE IF ~QuoteParses(http.quote) THEN get_enhanced_mock_data(symbol)
    ELSE LET q == http.quote
         IN  [outcome |-> "returned",
              api_status |-> "success",
              symbol |-> upper(q.sym.s),
              exchange |-> "NASDAQ",
              current_price |-> Round2(float(q.price.s).v),
              change |-> Round2(float(q.change.s).v),
              change_percent |-> Round2(float(Remove(
                  IF q.percent.t = "missing" THEN <<"0", "%">> ELSE q.percent.s, "%")).v),
              volume |-> IF isdigit(q.volume.s) THEN int(q.volume.s).v ELSE 0]

\* The quotes, responses and symbols drawn.
NoQuoteFields == [sym |-> Missing, price |-> Missing, change |-> Missing,
                  percent |-> Missing, volume |-> Missing]
QuoteFields ==
    [sym     : {Missing, Null, Str(<<"A", "A", "P", "L">>), Str(<<"a", "a", "p", "l">>)},
     price   : {Missing, Null, Str(<<"2", "2", "7", ".", "5", "0", "3">>), Str(<<"X">>)},
     change  : {Str(<<"-", "1", ".", "2", "5">>), Str(<<>>)},
     percent : {Missing, Null, Str(<<"-", "0", ".", "5", "5", "%">>), Str(<<"X", "%">>)},
     volume  : {Missing, Null, Str(<<"1", "0", "0", "0">>), Str(<<"1", ",", "0", "0", "0">>)}]
\* The bodies without 'Global Quote': invalid JSON, {'Error Message': ..},
\* {'Note': ..} (the rate-limit notice), any other object, and null.
OtherBodies == {"invalid", "error", "note", "unknown", "null"}
QuoteStatusCodes == {200, 429, 500}
HttpOutcomes ==
    {[raised |-> TRUE, status_code |-> 0, body |-> "invalid", quote |-> NoQuoteFields]}
      \cup {[raised |-> FALSE, status_code |-> c, body |-> b, quote |-> NoQuoteFields] :
                c \in QuoteStatusCodes, b \in OtherBodies}
      \cup {[raised |-> FALSE, status_code |-> 200, body |-> "quote", quote |-> q] :
                q \in QuoteFields}
QuoteSymbols ==
    {<<"A", "A", "P", "L">>, <<"a", "a", "p", "l">>, <<"2", "3", "3", "0", ".", "t", "w">>, <<>>}
ApiKeys == {"none", "placeholder", "set"}

NoQuoteRequest ==
    [symbol |-> <<>>, api_key |-> "none",
     http |-> [raised |-> TRUE, status_code |-> 0, body |-> "invalid", quote |-> NoQuoteFields]]
NoQuote ==
    [outcome |-> "none", api_status |-> "", symbol |-> <<>>, exchange |-> "",
     current_price |-> 0, change |-> 0, change_percent |-> 0, volume |-> 0]

(***************************************************************************)
(* views: the watchlist endpoints and the Watchlist table                  *)
(***************************************************************************)

\* re.match(r'^[A-Z0-9]+(\.[A-Z]{1,3})?$', s): a non-empty run of capitals
\* and digits, then nothing or a dot and one to three capitals.
IsSymbolChar(c) == IsUpper(c) \/ IsDigit(c)
MatchesSymbolPattern(s) ==
    \E k \in 1..Len(s) :
        /\ \A i \in 1..k : IsSymbolChar(s[i])
        /\ \/ k = Len(s)
           \/ /\ s[k + 1] = "."
              /\ Len(s) - (k + 1) \in 1..3
              /\ \A i \in (k + 2)..Len(s) : IsUpper(s[i])

MinSymbolLength == 1
MaxSymbolLength == 10

validate_symbol(symbol) ==
    IF symbol = <<>> THEN FALSE
    ELSE LET stripped == upper(strip(symbol))
         IN  IF Len(stripped) < MinSymbolLength \/ Len(stripped) > MaxSymbolLength
             THEN FALSE
             ELSE MatchesSymbolPattern(stripped)

\* The three endpoints that add a symbol, and what each makes of the
\* 'symbol' of the request before it looks at the table.
Endpoints == {"watchlist_stocks", "watchlist_view", "add_stock_by_symbol"}
RequestSymbol(endpoint, raw) ==
    IF endpoint = "watchlist_stocks" THEN strip(upper(raw)) ELSE upper(raw)

\* Only watchlist_stocks asks validate_symbol.
Validates(endpoint) == endpoint = "watchlist_stocks"

\* The table: rows of (id, symbol) of the user 'JoyWu', and the last id given.
NoRows == [rows |-> {}, last_id |-> 0]
Symbols(table) == {row.symbol : row \in table.rows}
\* Watchlist.objects.filter(user=user, symbol=symbol).exists()
Exists(table, symbol) == symbol \in Symbols(table)
\* unique_together = ['user', 'symbol']: the INSERT of a second row with the
\* symbol raises IntegrityError.
UniqueNeverViolated(table, symbol) == FALSE
UniqueViolation(table, symbol) == symbol \in Symbols(table)
\* Watchlist.objects.create(user=user, symbol=symbol, ...)
Created(table, symbol) ==
    [rows |-> table.rows \cup {[id |-> table.last_id + 1, symbol |-> symbol]},
     last_id |-> table.last_id + 1]
\* watchlist.delete() of the row Watchlist.objects.get(id=stock_id, user=user)
Deleted(table, stock_id) ==
    [table EXCEPT !.rows = {row \in table.rows : row.id # stock_id}]

BadRequest == 400
ServerError == 500
Ok == 200
CreatedStatus == 201

\* The status each endpoint gives a failure inside its try block, and a
\* successful add.
FailureStatus(endpoint) ==
    IF endpoint = "watchlist_stocks" THEN BadRequest ELSE ServerError
SuccessStatus(endpoint) ==
    IF endpoint = "watchlist_stocks" THEN CreatedStatus ELSE Ok
IsError(status_code) == status_code >= 400

\* What a request thread is doing, and the Response it gave last: at which
\* line it returned ("empty", "invalid", "exists", "create"), and the table
\* as that step found and left it.
Waiting == [endpoint |-> "none", symbol |-> <<>>, at |-> "idle"]
NoReply ==
    [endpoint |-> "none", symbol |-> <<>>, status |-> 0, line |-> "none",
     before |-> {}, after |-> {}]
Reply(endpoint, symbol, status_code, line, before, after) ==
    [endpoint |-> endpoint, symbol |-> symbol, status |-> status_code, line |-> line,
     before |-> before.rows, after |-> after.rows]

(***************************************************************************)
(* views.portfolio_holdings POST and the Holding table                     *)
(***************************************************************************)

\* bool(x) of a request value: None and the empty string are false.
Truthy(x) == x.t = "str" /\ x.s # <<>>

\* A DecimalField(decimal_places=2) column keeps two decimal places: the value
\* num / den (in thousandths, den # 0) as the save stores it.
ToCents(num, den) ==
    IF den > 0 THEN RoundHalfEven(num, 10 * den) * 10
    ELSE RoundHalfEven(-num, 10 * (-den)) * 10

\* The rows of the one portfolio: (id, stock, quantity, average_cost).
Holding(table, stock) == {row \in table.rows : row.stock = stock}
\* Holding.objects.filter(portfolio=portfolio, stock=stock).first()
First(table, stock) ==
    LET held == Holding(table, stock)
    IN  IF held = {} THEN {}
        ELSE {CHOOSE row \in held : \A other \in held : row.id <= other.id}

\* (old_value + new_value) / total_quantity as num / den, in thousandths.
MeanCost(old_quantity, old_cost, quantity, average_cost) ==
    [num |-> old_cost + average_cost, den |-> 2]
WeightedCost(old_quantity, old_cost, quantity, average_cost) ==
    [num |-> old_quantity * old_cost + quantity * average_cost,
     den |-> old_quantity + quantity]

\* existing_holding.quantity / .average_cost set and saved.
Merged(table, row, quantity, average_cost) ==
    LET cost == WeightedCost(row.quantity, row.average_cost, quantity, average_cost)
        saved == [row EXCEPT !.quantity = Round2(row.quantity + quantity),
                             !.average_cost = ToCents(cost.num, cost.den)]
    IN  [table EXCEPT !.rows = (table.rows \ {row}) \cup {saved}]

\* Holding.objects.create(portfolio=portfolio, stock=stock, ...)
Held(table, stock, quantity, average_cost) ==
    [rows |-> table.rows \cup
                  {[id |-> table.last_id + 1, stock |-> stock,
                    quantity |-> Round2(quantity), average_cost |-> Round2(average_cost)]},
     last_id |-> table.last_id + 1]

\* The POST: the status, the line it returned from, and the table it leaves.
Answer(status_code, line, table) ==
    [status |-> status_code, line |-> line, table |-> table]
portfolio_holdings(table, raw, quantity, average_cost) ==
    LET symbol == upper(raw)
        q == float(quantity.s)
        c == float(average_cost.s)
        existing_holding == First(table, symbol)
        row == CHOOSE r \in existing_holding : TRUE
    IN  IF symbol = <<>> \/ ~Truthy(quantity) \/ ~Truthy(average_cost)
        THEN Answer(BadRequest, "missing", table)
        ELSE IF ~q.ok \/ ~c.ok THEN Answer(BadRequest, "number", table)
        ELSE IF existing_holding # {}
        THEN IF row.quantity + q.v = 0
             THEN Answer(ServerError, "division", table)
             ELSE Answer(Ok, "merged", Merged(table, row, q.v, c.v))
        ELSE Answer(Ok, "created", Held(table, symbol, q.v, c.v))

\* The 'symbol', 'quantity' and 'average_cost' a POST carries.
HoldingSymbols == {<<"a", "a", "p", "l">>, <<"M", "S", "F", "T">>, <<>>}
HoldingQuantities ==
    {Str(<<"1">>), Str(<<"-", "1">>), Str(<<"0", ".", "0", "0", "5">>), Str(<<"X">>)}
HoldingCosts ==
    {Str(<<"1", "0">>), Str(<<"1", "0", ".", "0", "1">>), Str(<<"1", "2">>), Null}

NoPost ==
    [count |-> 0, symbol |-> <<>>, quantity |-> 0, average_cost |-> 0,
     status |-> 0, line |-> "none", before |-> {}, after |-> {}]

\* The parts of the state a specification does not use stay as constructed.
IdleClock == [day |-> 0, hour |-> 0, minute |-> 0, second |-> 0]
NoPrices == [op |-> "none", tick |-> 0, other_tick |-> 0, current |-> 0, previous |-> 0,
             again |-> 0]
ScanIdle ==
    data = NoData /\ result = NoResult /\ response = NoResponse /\ summary = NoSummary
SessionIdle == now = IdleClock /\ market_status = NoStatus
PriceIdle ==
    arg_price = 0 /\ arg_other = 0 /\ arg_change = 0 /\ priced = NoPrices
LimiterIdle ==
    /\ service = "legal_stock_service"
    /\ clock = 0
    /\ last_request_time = 0
    /\ callers = <<>>
    /\ returns = <<>>
QuoteIdle ==
    /\ quote_request = NoQuoteRequest
    /\ quote_result = NoQuote
WatchIdle ==
    /\ watchlist = NoRows
    /\ adding = <<>>
    /\ replies = <<>>
HoldIdle ==
    /\ holdings = NoRows
    /\ posted = NoPost
WsIdle ==
    /\ ws_clock = 0
    /\ consumers = <<>>
    /\ group = {}
    /\ inbox = <<>>
    /\ broadcasts = <<>>
AppIdle == QuoteIdle /\ WatchIdle /\ HoldIdle /\ WsIdle
OtherIdle == estimate = <<>> /\ LimiterIdle /\ AppIdle

InitSession ==
    /\ pc = "call"
    /\ now \in DateTimes
    /\ market_status = NoStatus
    /\ fp_tie = "down"
    /\ ScanIdle
    /\ PriceIdle
    /\ OtherIdle

get_market_status ==
    /\ pc = "call"
    /\ market_status' = MarketStatus(now)
    /\ pc' = "done"
    /\ UNCHANGED <<now, scanVars, fp_tie, priceVars, otherVars>>

NextSession == get_market_status

SpecSession == InitSession /\ [][NextSession]_vars

InitScan ==
    /\ pc = "call"
    /\ IsInput(data)
    /\ result = NoResult
    /\ response = NoResponse
    /\ summary = NoSummary
    /\ fp_tie \in Ties
    /\ SessionIdle
    /\ PriceIdle
    /\ OtherIdle

_parse_limit_stocks_data ==
    /\ pc = "call"
    /\ \E t \in ScanClocks, seed \in Seeds :
          result' = parse_limit_stocks_data(data, t, seed)
    /\ pc' = "done"
    /\ UNCHANGED <<data, response, summary, sessionVars, fp_tie, priceVars, otherVars>>

NextScan == _parse_limit_stocks_data

SpecScan == InitScan /\ [][NextScan]_vars

(***************************************************************************)
(* TaiwanStockService.get_real_limit_stocks / get_limit_stocks             *)
(***************************************************************************)

\* The tables a response body decodes to: no table, or up to MaxFetched rows.
MaxFetched == 1
IsFetched(d) ==
    \/ d = NoData
    \/ \E n \in 0..MaxFetched : \E pick \in [1..n -> 1..Len(Vocabulary)] :
          d = Table(ShortTable(n, pick))

\* What requests.get did: it raised, or it returned a response with a status
\* code and a body that response.json() decodes or raises on.
StatusCodes == {200, 404, 503}
Responses ==
    {Raised}
      \cup {[raised |-> FALSE, status_code |-> c, json |-> j] :
                c \in StatusCodes, j \in {"ok", "invalid"}}

InitFetch ==
    /\ pc = "call"
    /\ response \in Responses
    /\ IF ~response.raised /\ response.json = "ok"
       THEN IsFetched(data)
       ELSE data = NoData
    /\ result = NoResult
    /\ summary = NoSummary
    /\ fp_tie \in Ties
    /\ SessionIdle
    /\ PriceIdle
    /\ OtherIdle

\* get_limit_stocks returns get_real_limit_stocks().
get_limit_stocks ==
    /\ pc = "call"
    /\ \E t \in ScanClocks, seed \in Seeds :
          result' = get_real_limit_stocks(response, data, t, seed)
    /\ pc' = "done"
    /\ UNCHANGED <<data, response, summary, sessionVars, fp_tie, priceVars, otherVars>>

NextFetch == get_limit_stocks

SpecFetch == InitFetch /\ [][NextFetch]_vars

(***************************************************************************)
(* TaiwanStockService.get_taiwan_market_summary                            *)
(***************************************************************************)

\* The tables a response body decodes to, here with the long ones.
IsSummarised(d) ==
    \/ IsFetched(d)
    \/ \E n \in LongFrom..MaxLong : \E pat \in Patterns :
          d = Table(LongTable(n, pat))

InitSummary ==
    /\ pc = "call"
    /\ response \in Responses
    /\ IF ~response.raised /\ response.json = "ok"
       THEN IsSummarised(data)
       ELSE data = NoData
    /\ result = NoResult
    /\ summary = NoSummary
    /\ fp_tie \in Ties
    /\ SessionIdle
    /\ PriceIdle
    /\ OtherIdle

\* limit_data = cls.get_limit_stocks(), then the summary built from it.
TaiwanMarketSummary ==
    /\ pc = "call"
    /\ \E t \in ScanClocks, seed \in Seeds :
          /\ result' = get_real_limit_stocks(response, data, t, seed)
          /\ summary' = get_taiwan_market_summary(result')
    /\ pc' = "done"
    /\ UNCHANGED <<data, response, sessionVars, fp_tie, priceVars, otherVars>>

NextSummary == TaiwanMarketSummary

SpecSummary == InitSummary /\ [][NextSummary]_vars

(***************************************************************************)
(* The price functions on their own: get_price_tick, round_taiwan_price    *)
(* and the derivation of the two prices of a row                           *)
(***************************************************************************)

\* The prices drawn: the lower bound of every band, the half ticks on both
\* sides of it (the multiples of the tick and the points halfway between
\* two of them; below 0 they are the non-positive prices), and the prices
\* one thousandth away from it.
Spread == 3
BandFloor(i) == PRICE_TICKS[i][1]
BandTick(i) == PRICE_TICKS[i][3]
TickBelow(i) == IF i = 1 THEN BandTick(1) ELSE BandTick(i - 1)
AroundFloor(i) ==
    {BandFloor(i) + k * (BandTick(i) \div 2) : k \in 0..Spread}
      \cup {BandFloor(i) - k * (TickBelow(i) \div 2) : k \in 1..Spread}
      \cup {BandFloor(i) - 1, BandFloor(i) + 1}
Prices == UNION {AroundFloor(i) : i \in 1..Len(PRICE_TICKS)}

\* The second price of a comparison: the band bounds and their neighbours.
OtherPrices ==
    UNION {{BandFloor(i) - 1, BandFloor(i), BandFloor(i) + 1} : i \in 1..Len(PRICE_TICKS)}

\* The change of a row with the given price: none, a few ticks either way,
\* the whole price, and more than the price.
Changes(p) == {0, 30, -30, p, p + 10, p + 7500}

InitPrice ==
    /\ pc = "call"
    /\ arg_price \in Prices
    /\ arg_other \in OtherPrices
    /\ arg_change \in Changes(arg_price)
    /\ fp_tie \in Ties
    /\ priced = NoPrices
    /\ ScanIdle
    /\ SessionIdle
    /\ OtherIdle

\* get_price_tick called on each of the two prices.
GetPriceTick ==
    /\ pc = "call"
    /\ priced' = [NoPrices EXCEPT !.op = "get_price_tick",
                                  !.tick = get_price_tick(arg_price),
                                  !.other_tick = get_price_tick(arg_other)]
    /\ pc' = "done"
    /\ UNCHANGED <<arg_price, arg_other, arg_change, fp_tie, scanVars, sessionVars, otherVars>>

\* round_taiwan_price called on the price.
RoundTaiwanPrice ==
    /\ pc = "call"
    /\ priced' = [NoPrices EXCEPT !.op = "round_taiwan_price",
                                  !.current = round_taiwan_price(arg_price)]
    /\ pc' = "done"
    /\ UNCHANGED <<arg_price, arg_other, arg_change, fp_tie, scanVars, sessionVars, otherVars>>

\* The two prices of a row, as _parse_limit_stocks_data derives them:
\*   current_price = round_taiwan_price(current_price)
\*   previous_price = round_taiwan_price(current_price - change)
DerivePrices ==
    /\ pc = "call"
    /\ LET current_price == round_taiwan_price(arg_price)
       IN  priced' = [NoPrices EXCEPT !.op = "derive",
                                      !.current = current_price,
                                      !.previous = PreviousPrice(current_price, arg_change)]
    /\ pc' = "done"
    /\ UNCHANGED <<arg_price, arg_other, arg_change, fp_tie, scanVars, sessionVars, otherVars>>

(***************************************************************************)
(* TaiwanStockService._estimate_limit_time on its own                      *)
(***************************************************************************)

\* The clock readings and the raw draws of the random source.
EstimateMinutes == {0, 15, 30, 31, 59}
EstimateClocks == [day : {0}, hour : 0..23, minute : EstimateMinutes, second : {0}]
MaxDraw == 59
HourDraws == 0..4
MinuteDraws == 0..MaxDraw

InitEstimate ==
    /\ pc = "call"
    /\ now \in EstimateClocks
    /\ market_status = NoStatus
    /\ estimate = <<>>
    /\ fp_tie = "down"
    /\ ScanIdle
    /\ PriceIdle
    /\ LimiterIdle
    /\ AppIdle

_estimate_limit_time ==
    /\ pc = "call"
    /\ \E rh \in HourDraws, rm \in MinuteDraws :
          estimate' = FormatHHMM(estimate_limit_time(now, rh, rm))
    /\ pc' = "done"
    /\ UNCHANGED <<scanVars, sessionVars, fp_tie, priceVars>>
    /\ UNCHANGED <<service, clock, last_request_time, callers, returns, appVars>>

NextEstimate == _estimate_limit_time

SpecEstimate == InitEstimate /\ [][NextEstimate]_vars

(***************************************************************************)
(* LegalStockService._rate_limit (legal_stock_service.py and views.py)     *)
(***************************************************************************)

\* _min_request_interval of the two classes, in tenths of a second.
MinRequestIntervalLegal == 12
MinRequestIntervalViews == 120
min_request_interval(svc) ==
    IF svc = "views" THEN MinRequestIntervalViews ELSE MinRequestIntervalLegal

\* Time passes in quarters of the interval.  The clock starts one interval
\* after 0 (time.time() counts from 1970, cls._last_request_time starts at
\* 0: the first call never waits) and is followed for MaxIntervals more;
\* a single thread is followed longer, through MaxSequentialCalls calls.
MaxIntervals == 2
MaxCalls == 3
MaxSequentialIntervals == 5
MaxSequentialCalls == 6
Quarter(svc) == min_request_interval(svc) \div 4
StartTime(svc) == min_request_interval(svc)
MaxTime(svc, threads) ==
    StartTime(svc) + min_request_interval(svc) *
        (IF Cardinality(threads) = 1 THEN MaxSequentialIntervals ELSE MaxIntervals)
CallBudget(threads) ==
    IF Cardinality(threads) = 1 THEN MaxSequentialCalls ELSE MaxCalls

\* `time_since_last < cls._min_request_interval`
NeedsWaitNever(time_since_last, interval) == FALSE
NeedsWait(time_since_last, interval) == time_since_last < interval

\* `sleep_time = cls._min_request_interval - time_since_last`
SleepTimeHalved(time_since_last, interval) == (interval - time_since_last) \div 2
SleepTime(time_since_last, interval) == interval - time_since_last

IdleCaller == [pc |-> "idle", current_time |-> 0, seen |-> 0, wake |-> 0]
Active == {t \in DOMAIN callers : callers[t].pc # "idle"}

InitLimiter(threads) ==
    /\ pc = "call"
    /\ service \in {"legal_stock_service", "views"}
    /\ clock = StartTime(service)
    /\ last_request_time = 0
    /\ callers = [t \in threads |-> IdleCaller]
    /\ returns = <<>>
    /\ estimate = <<>>
    /\ AppIdle
    /\ fp_tie = "down"
    /\ ScanIdle
    /\ SessionIdle
    /\ PriceIdle

\* Time passes.
Tick ==
    /\ clock + Quarter(service) <= MaxTime(service, DOMAIN callers)
    /\ clock' = clock + Quarter(service)
    /\ UNCHANGED <<service, last_request_time, callers, returns>>

\* A thread enters _rate_limit: current_time = time.time()
RateLimitCall(t) ==
    /\ callers[t].pc = "idle"
    /\ Len(returns) + Cardinality(Active) < CallBudget(DOMAIN callers)
    /\ callers' = [callers EXCEPT ![t] = [IdleCaller EXCEPT !.pc = "check",
                                                            !.current_time = clock]]
    /\ UNCHANGED <<service, clock, last_request_time, returns>>

\* It reads cls._last_request_time and either starts time.sleep(sleep_time)
\* or goes on to the assignment.
RateLimitCheck(t) ==
    /\ callers[t].pc = "check"
    /\ LET interval        == min_request_interval(service)
           time_since_last == callers[t].current_time - last_request_time
       IN  callers' = [callers EXCEPT ![t] =
               IF NeedsWait(time_since_last, interval)
               THEN [@ EXCEPT !.pc = "sleep",
                              !.seen = last_request_time,
                              !.wake = clock + SleepTime(time_since_last, interval)]
               ELSE [@ EXCEPT !.pc = "assign", !.seen = last_request_time]]
    /\ UNCHANGED <<service, clock, last_request_time, returns>>

\* time.sleep has slept at least sleep_time (or there was no wait):
\* cls._last_request_time = time.time(), the last statement; the function
\* returns with it.
RateLimitReturn(t) ==
    /\ \/ callers[t].pc = "assign"
       \/ callers[t].pc = "sleep" /\ clock >= callers[t].wake
    /\ last_request_time' = clock
    /\ returns' = Append(returns, [thread |-> t, at |-> clock,
                                   seen |-> callers[t].seen,
                                   previous |-> last_request_time])
    /\ callers' = [callers EXCEPT ![t] = IdleCaller]
    /\ UNCHANGED <<service, clock>>

rate_limit ==
    /\ \/ Tick
       \/ \E t \in DOMAIN callers :
             RateLimitCall(t) \/ RateLimitCheck(t) \/ RateLimitReturn(t)
    /\ UNCHANGED <<pc, scanVars, sessionVars, fp_tie, priceVars, estimate, appVars>>

\* One thread calling _rate_limit again and again.
InitSequential == InitLimiter({1})
NextSequential == rate_limit
SpecSequential == InitSequential /\ [][NextSequential]_vars

\* Two threads (two request handlers) calling it.
InitConcurrent == InitLimiter({1, 2})
NextConcurrent == rate_limit
SpecConcurrent == InitConcurrent /\ [][NextConcurrent]_vars

\* round_taiwan_price called on the price, and again on what it returned.
RoundAgain ==
    /\ pc = "call"
    /\ LET current_price == round_taiwan_price(arg_price)
       IN  priced' = [NoPrices EXCEPT !.op = "round_again",
                                      !.current = current_price,
                                      !.again = round_taiwan_price(current_price)]
    /\ pc' = "done"
    /\ UNCHANGED <<arg_price, arg_other, arg_change, fp_tie, scanVars, sessionVars, otherVars>>

NextPrice == GetPriceTick \/ RoundTaiwanPrice \/ DerivePrices \/ RoundAgain

SpecPrice == InitPrice /\ [][NextPrice]_vars

(***************************************************************************)
(* views.LegalStockService.get_real_stock_data on its own                  *)
(***************************************************************************)

InitQuote ==
    /\ pc = "call"
    /\ quote_request \in [symbol : QuoteSymbols, api_key : ApiKeys, http : HttpOutcomes]
    /\ quote_result = NoQuote
    /\ fp_tie = "down"
    /\ ScanIdle
    /\ SessionIdle
    /\ PriceIdle
    /\ estimate = <<>>
    /\ LimiterIdle
    /\ WatchIdle
    /\ HoldIdle
    /\ WsIdle

GetRealStockData ==
    /\ pc = "call"
    /\ quote_result' = get_real_stock_data(quote_request.symbol, quote_request.api_key,
                                           quote_request.http)
    /\ pc' = "done"
    /\ UNCHANGED <<quote_request, scanVars, sessionVars, fp_tie, priceVars>>
    /\ UNCHANGED <<estimate, service, clock, last_request_time, callers, returns>>
    /\ UNCHANGED <<watchVars, holdVars, wsVars>>

NextQuote == GetRealStockData

SpecQuote == InitQuote /\ [][NextQuote]_vars

(***************************************************************************)
(* The watchlist endpoints, served by concurrent request threads           *)
(***************************************************************************)

\* The request threads, the 'symbol' values a request carries, and the
\* number of rows ever created.
RequestThreads == {1, 2}
RawSymbols ==
    {<<"a", "a", "p", "l">>, <<"A", "A", "P", "L", " ">>, <<"a", "$">>, <<>>}
MaxCreated == 2
StockIds == 1..MaxCreated

InFlight == Cardinality({t \in RequestThreads : adding[t].at = "create"})

InitWatchlist ==
    /\ pc = "call"
    /\ watchlist = NoRows
    /\ adding = [t \in RequestThreads |-> Waiting]
    /\ replies = [t \in RequestThreads |-> NoReply]
    /\ fp_tie = "down"
    /\ ScanIdle
    /\ SessionIdle
    /\ PriceIdle
    /\ estimate = <<>>
    /\ LimiterIdle
    /\ QuoteIdle
    /\ HoldIdle
    /\ WsIdle

restOfWatchlist ==
    <<pc, scanVars, sessionVars, fp_tie, priceVars, estimate, service, clock,
      last_request_time, callers, returns, quoteVars, holdVars, wsVars>>

\* A POST up to and including its look at the table: the symbol is taken
\* from the request, an empty one is refused, watchlist_stocks refuses one
\* that validate_symbol rejects, and a symbol that exists is refused.
AddStock(t, endpoint, raw) ==
    LET symbol == RequestSymbol(endpoint, raw)
        Refuse(line) ==
            /\ replies' = [replies EXCEPT ![t] =
                   Reply(endpoint, symbol, BadRequest, line, watchlist, watchlist)]
            /\ UNCHANGED adding
    IN  /\ adding[t].at = "idle"
        /\ watchlist.last_id + InFlight < MaxCreated
        /\ IF symbol = <<>> THEN Refuse("empty")
           ELSE IF Validates(endpoint) /\ ~validate_symbol(symbol) THEN Refuse("invalid")
           ELSE IF Exists(watchlist, symbol) THEN Refuse("exists")
           ELSE /\ adding' = [adding EXCEPT ![t] =
                       [endpoint |-> endpoint, symbol |-> symbol, at |-> "create"]]
                /\ UNCHANGED replies
        /\ UNCHANGED <<watchlist, restOfWatchlist>>

\* The rest of the POST: get_real_stock_data (which always returns a
\* quote), then Watchlist.objects.create and the Response; an IntegrityError
\* of the create goes to the handler's except Exception.
CreateStock(t) ==
    LET endpoint == adding[t].endpoint
        symbol == adding[t].symbol
    IN  /\ adding[t].at = "create"
        /\ IF UniqueViolation(watchlist, symbol)
           THEN /\ replies' = [replies EXCEPT ![t] =
                       Reply(endpoint, symbol, FailureStatus(endpoint), "create",
                             watchlist, watchlist)]
                /\ UNCHANGED watchlist
           ELSE /\ watchlist' = Created(watchlist, symbol)
                /\ replies' = [replies EXCEPT ![t] =
                       Reply(endpoint, symbol, SuccessStatus(endpoint), "create",
                             watchlist, Created(watchlist, symbol))]
        /\ adding' = [adding EXCEPT ![t] = Waiting]
        /\ UNCHANGED restOfWatchlist

\* watchlist_stock_detail DELETE and remove_from_watchlist: the row with the
\* id is deleted; without such a row the answer is 404 and nothing changes.
RemoveStock(stock_id) ==
    /\ \E row \in watchlist.rows : row.id = stock_id
    /\ watchlist' = Deleted(watchlist, stock_id)
    /\ UNCHANGED <<adding, replies, restOfWatchlist>>

watchlist_stocks == \E t \in RequestThreads, raw \in RawSymbols : AddStock(t, "watchlist_stocks", raw)
watchlist_view == \E t \in RequestThreads, raw \in RawSymbols : AddStock(t, "watchlist_view", raw)
add_stock_by_symbol ==
    \E t \in RequestThreads, raw \in RawSymbols : AddStock(t, "add_stock_by_symbol", raw)
create_stock == \E t \in RequestThreads : CreateStock(t)
remove_from_watchlist == \E stock_id \in StockIds : RemoveStock(stock_id)

NextWatchlist ==
    \/ watchlist_stocks
    \/ watchlist_view
    \/ add_stock_by_symbol
    \/ create_stock
    \/ remove_from_watchlist

SpecWatchlist == InitWatchlist /\ [][NextWatchlist]_vars

(***************************************************************************)
(* A sequence of portfolio_holdings POSTs                                   *)
(***************************************************************************)

MaxPosts == 3

InitHoldings ==
    /\ pc = "call"
    /\ holdings = NoRows
    /\ posted = NoPost
    /\ fp_tie = "down"
    /\ ScanIdle
    /\ SessionIdle
    /\ PriceIdle
    /\ estimate = <<>>
    /\ LimiterIdle
    /\ QuoteIdle
    /\ WatchIdle
    /\ WsIdle

PortfolioHoldings ==
    /\ posted.count < MaxPosts
    /\ \E raw \in HoldingSymbols, quantity \in HoldingQuantities, average_cost \in HoldingCosts :
           LET answer == portfolio_holdings(holdings, raw, quantity, average_cost)
               numbers == answer.line \in {"division", "merged", "created"}
           IN  /\ holdings' = answer.table
               /\ posted' =
                      [count |-> posted.count + 1,
                       symbol |-> upper(raw),
                       quantity |-> IF numbers THEN float(quantity.s).v ELSE 0,
                       average_cost |-> IF numbers THEN float(average_cost.s).v ELSE 0,
                       status |-> answer.status,
                       line |-> answer.line,
                       before |-> holdings.rows,
                       after |-> answer.table.rows]
    /\ UNCHANGED <<pc, scanVars, sessionVars, fp_tie, priceVars, estimate, service,
                   clock, last_request_time, callers, returns, quoteVars, watchVars,
                   wsVars>>

NextHoldings == PortfolioHoldings

SpecHoldings == InitHoldings /\ [][NextHoldings]_vars

(***************************************************************************)
(* consumers.StockPriceConsumer: connections and their update tasks        *)
(***************************************************************************)

\* asyncio.sleep(3) of send_price_updates, in seconds.
UpdatePeriod == 3
\* The consumer instances (one per WebSocket connection), and the time the
\* event loop is followed for.
Channels == {1, 2}
MaxLoopTime == 7

\* A consumer before its connect, and its task once create_task started it:
\* wake is the time its asyncio.sleep ends.
NotConnected == [state |-> "new", task |-> "none", wake |-> 0]
Message(type, sender) == [type |-> type, at |-> ws_clock, sender |-> sender]

InitConsumer ==
    /\ pc = "call"
    /\ ws_clock = 0
    /\ consumers = [c \in Channels |-> NotConnected]
    /\ group = {}
    /\ inbox = [c \in Channels |-> <<>>]
    /\ broadcasts = <<>>
    /\ fp_tie = "down"
    /\ ScanIdle
    /\ SessionIdle
    /\ PriceIdle
    /\ estimate = <<>>
    /\ LimiterIdle
    /\ QuoteIdle
    /\ WatchIdle
    /\ HoldIdle

restOfConsumer ==
    <<pc, scanVars, sessionVars, fp_tie, priceVars, estimate, service, clock,
      last_request_time, callers, returns, quoteVars, watchVars, holdVars>>

\* connect: the channel joins the group, the connection is accepted, the
\* initial data goes to the client, and the update task is started.
connect(c) ==
    /\ consumers[c].state = "new"
    /\ group' = group \cup {c}
    /\ inbox' = [inbox EXCEPT ![c] = Append(@, Message("initial_data", c))]
    /\ consumers' = [consumers EXCEPT ![c] =
           [state |-> "connected", task |-> "running", wake |-> ws_clock + UpdatePeriod]]
    /\ UNCHANGED <<ws_clock, broadcasts, restOfConsumer>>

\* disconnect: the channel leaves the group; nothing else.
disconnect(c) ==
    /\ consumers[c].state = "connected"
    /\ group' = group \ {c}
    /\ consumers' = [consumers EXCEPT ![c].state = "disconnected"]
    /\ UNCHANGED <<ws_clock, inbox, broadcasts, restOfConsumer>>

\* One round of the loop of send_price_updates after its sleep: group_send
\* to the group, whose members' price_update handlers send the message to
\* their clients; then the next sleep.
send_price_updates(c) ==
    /\ consumers[c].task = "running"
    /\ consumers[c].wake = ws_clock
    /\ broadcasts' = Append(broadcasts,
           [sender |-> c, at |-> ws_clock, state |-> consumers[c].state, to |-> group])
    /\ inbox' = [m \in Channels |->
           IF m \in group THEN Append(inbox[m], Message("price_update", c)) ELSE inbox[m]]
    /\ consumers' = [consumers EXCEPT ![c].wake = ws_clock + UpdatePeriod]
    /\ UNCHANGED <<ws_clock, group, restOfConsumer>>

\* A second passes; a task whose sleep has ended runs first.
Second ==
    /\ ws_clock < MaxLoopTime
    /\ \A c \in Channels : consumers[c].task = "running" => consumers[c].wake > ws_clock
    /\ ws_clock' = ws_clock + 1
    /\ UNCHANGED <<consumers, group, inbox, broadcasts, restOfConsumer>>

Connect == \E c \in Channels : connect(c)
Disconnect == \E c \in Channels : disconnect(c)
SendPriceUpdates == \E c \in Channels : send_price_updates(c)

NextConsumer == Connect \/ Disconnect \/ SendPriceUpdates \/ Second

SpecConsumer == InitConsumer /\ [][NextConsumer]_vars

\* Minutes since midnight of a clock reading, and the session window the
\* function writes into next_open / next_close.
MinuteOfDay(dt) == dt.hour * 60 + dt.minute
SessionOpen(dt) == Replace(dt, OpenHour, OpenMinute)
SessionClose(dt) == Replace(dt, CloseHour, CloseMinute)
Returned == pc = "done"

\* C7: is_open is true if and only if the clock reading is on a trading day
\* (Monday-Friday) and inside the half-open window [13:30, 21:00), the
\* times the function itself reports as next_open and next_close.
C7_IsOpenIffInWindow ==
    Returned =>
        (market_status.is_open <=>
            /\ weekday(now) < 5
            /\ MinuteOfDay(SessionOpen(now)) <= MinuteOfDay(now)
            /\ MinuteOfDay(now) < MinuteOfDay(SessionClose(now)))

\* C8: on a trading day, at every time of day strictly before 13:30,
\* next_open is today at 13:30:00.
C8_NextOpenTodayBeforeOpen ==
    (Returned /\ weekday(now) < 5 /\ MinuteOfDay(now) < MinuteOfDay(SessionOpen(now)))
        => market_status.next_open = SessionOpen(now)

\* C9: on a trading day at or after 21:00, next_open is 13:30:00 of the next
\* trading day: the next calendar day for Monday-Thursday, the following
\* Monday for Friday, and never a Saturday or a Sunday.
C9_NextOpenAfterClose ==
    (Returned /\ weekday(now) < 5 /\ MinuteOfDay(now) >= MinuteOfDay(SessionClose(now)))
        => /\ market_status.next_open =
                SessionOpen(PlusDays(now, IF weekday(now) = 4 THEN 3 ELSE 1))
           /\ weekday(market_status.next_open) < 5

C9_Witness_FridayAfterClose ==
    /\ Returned
    /\ weekday(now) = 4
    /\ now.hour = 22
    /\ market_status.next_open.day = now.day + 3

\* C10: for every Saturday or Sunday clock reading, is_open is false,
\* trading_day is false and next_open is 13:30:00 of the Monday that follows.
C10_WeekendClosedUntilMonday ==
    (Returned /\ weekday(now) >= 5)
        => /\ market_status.is_open = FALSE
           /\ market_status.trading_day = FALSE
           /\ market_status.next_open =
                SessionOpen(PlusDays(now, IF weekday(now) = 5 THEN 2 ELSE 1))
           /\ weekday(market_status.next_open) = 0

C10_Witness_Saturday ==
    /\ Returned
    /\ weekday(now) = 5
    /\ market_status.trading_day = FALSE
    /\ market_status.next_open.day = now.day + 2

(***************************************************************************)
(* The limit scan: what is claimed of _parse_limit_stocks_data             *)
(***************************************************************************)

HasTable == data.table = "list"
Rows == data.rows
RowIds == 1..Len(Rows)

\* A row as section 6 of the specification describes it: a sequence of
\* strings.  A table of such rows is the input the classification claims
\* are stated for; rows holding other JSON values are the subject of C4.
IsStringRow(row) ==
    row.kind = "list" /\ \A k \in 1..Len(row.f) : row.f[k].t = "str"
StringTable == HasTable /\ \A i \in RowIds : IsStringRow(Rows[i])

\* The numbers a row of strings carries.
RowPrice(row) == float(Remove(At(row, 8).s, ","))
RowPercent(row) == float(Remove(Remove(At(row, 11).s, "%"), "+"))
RowChange(row) == float(Remove(Remove(At(row, 10).s, ","), "+"))
RowVolume(row) == int(Remove(At(row, 2).s, ","))
Placeholder(x) == x.s = <<"-", "-">> \/ x.s = <<"-">> \/ x.s = <<>>

\* A row of strings whose price, change-percent or change cannot be read.
Unparsable(row) ==
    /\ IsStringRow(row)
    /\ Len(row.f) >= 12
    /\ \/ Placeholder(At(row, 8))
       \/ Placeholder(At(row, 11))
       \/ ~RowPrice(row).ok
       \/ ~RowPercent(row).ok
       \/ ~RowChange(row).ok

\* A row of strings all of whose numbers can be read.
Parseable(row) ==
    /\ IsStringRow(row)
    /\ Len(row.f) >= 12
    /\ ~Unparsable(row)
    /\ (Placeholder(At(row, 2)) \/ RowVolume(row).ok)

Percent(i) == RowPercent(Rows[i]).v
UpRows == {i \in RowIds : Parseable(Rows[i]) /\ Percent(i) >= 9500}
DownRows == {i \in RowIds : Parseable(Rows[i]) /\ Percent(i) <= -9500}
MiddleRows == {i \in RowIds : Parseable(Rows[i]) /\ -9500 < Percent(i) /\ Percent(i) < 9500}

\* The row with the code of position i is in the list.
Listed(list, i) == \E j \in 1..Len(list) : list[j].code = CodeAt(i)
Entries == {result.limit_up[j] : j \in 1..Len(result.limit_up)}
               \cup {result.limit_down[j] : j \in 1..Len(result.limit_down)}

\* C1: a parseable row is classified up exactly when change_percent >= 9.5:
\* limit_up_found counts exactly these rows, every entry of limit_up comes
\* from one of them, and all of them are listed when they are at most 20;
\* an entry has limit_type 'up', and is_limit = true with status '漲停' when
\* change_percent >= 9.9, is_limit = false with status '接近漲停' otherwise.
C1_UpClassification ==
    (Returned /\ StringTable) =>
        LET up == UpRows
        IN  /\ result.scan_summary.limit_up_found = Cardinality(up)
            /\ \A j \in 1..Len(result.limit_up) :
                  LET e == result.limit_up[j]
                  IN  \E i \in up :
                         /\ e.code = CodeAt(i)
                         /\ e.change_percent = Percent(i)
                         /\ e.limit_type = "up"
                         /\ e.is_limit = (Percent(i) >= 9900)
                         /\ e.status = IF Percent(i) >= 9900 THEN "limit_up" ELSE "near_limit_up"
            /\ Cardinality(up) <= 20 => \A i \in up : Listed(result.limit_up, i)

\* The scenario of C1: price '110.00', change '10.00', change_percent '9.90%'
\* is listed up with is_limit = true and reference_price 100.00; and a row
\* at 9.54 % is listed up with is_limit = false beside it.
C1_Witness_Scenario ==
    /\ Returned
    /\ \E i \in RowIds : Rows[i] = WithCode(RowUpHard, i)
    /\ \E j \in 1..Len(result.limit_up) :
          LET e == result.limit_up[j]
          IN  /\ e.is_limit /\ e.limit_type = "up" /\ e.status = "limit_up"
              /\ e.change_percent = 9900
              /\ e.current_price = 110000 /\ e.reference_price = 100000
    /\ \E j \in 1..Len(result.limit_up) :
          ~result.limit_up[j].is_limit /\ result.limit_up[j].change_percent = 9540

\* C2: a parseable row is classified down with is_limit = true when
\* change_percent <= -9.9, down with is_limit = false when
\* -9.9 < change_percent <= -9.5, and is in neither list when
\* -9.5 < change_percent < 9.5; no row is in both lists.
C2_DownClassification ==
    (Returned /\ StringTable) =>
        LET down == DownRows
            middle == MiddleRows
        IN  /\ result.scan_summary.limit_down_found = Cardinality(down)
            /\ \A j \in 1..Len(result.limit_down) :
                  LET e == result.limit_down[j]
                  IN  \E i \in down :
                         /\ e.code = CodeAt(i)
                         /\ e.change_percent = Percent(i)
                         /\ e.limit_type = "down"
                         /\ e.is_limit = (Percent(i) <= -9900)
                         /\ e.status = IF Percent(i) <= -9900 THEN "limit_down" ELSE "near_limit_down"
            /\ Cardinality(down) <= 20 => \A i \in down : Listed(result.limit_down, i)
            /\ \A i \in middle :
                  ~Listed(result.limit_up, i) /\ ~Listed(result.limit_down, i)
            /\ \A i \in RowIds :
                  ~(Listed(result.limit_up, i) /\ Listed(result.limit_down, i))

C2_Witness_DownAndMiddle ==
    /\ Returned
    /\ \E j \in 1..Len(result.limit_down) :
          result.limit_down[j].is_limit /\ result.limit_down[j].change_percent = -9900
    /\ \E j \in 1..Len(result.limit_down) :
          ~result.limit_down[j].is_limit /\ result.limit_down[j].change_percent = -9500
    /\ MiddleRows # {}

C4_MalformedRowOnlyDropped ==
    (Returned /\ HasTable) =>
        /\ ~result.error
        /\ result.scan_summary.total_scanned = Len(Rows)
        /\ (Cardinality(UpRows) <= 20 => \A i \in UpRows : Listed(result.limit_up, i))
        /\ (Cardinality(DownRows) <= 20 => \A i \in DownRows : Listed(result.limit_down, i))

\* C5: a row whose price or change-percent is a sentinel or no number, or
\* whose change is no number, is in neither list, is counted in
\* total_scanned, and is not counted in limit_up_found or limit_down_found.
C5_UnparsableRowsDropped ==
    (Returned /\ StringTable) =>
        LET bad == {i \in RowIds : Unparsable(Rows[i])}
        IN  /\ \A i \in bad :
                  ~Listed(result.limit_up, i) /\ ~Listed(result.limit_down, i)
            /\ result.scan_summary.total_scanned = Len(Rows)
            /\ result.scan_summary.limit_up_found + result.scan_summary.limit_down_found
                    <= Len(Rows) - Cardinality(bad)

\* The placeholder row of the scenario beside a row that is listed.
C5_Witness_PlaceholderRow ==
    /\ Returned
    /\ \E i \in RowIds : Rows[i] = WithCode(RowSentinelAll, i)
    /\ \E i \in RowIds : ~RowChange(Rows[i]).ok /\ RowPrice(Rows[i]).ok
    /\ result.scan_summary.total_scanned = Len(Rows)
    /\ Len(Rows) > 0
    /\ ~result.error

Descending(list) ==
    \A j, k \in 1..Len(list) : j < k => list[j].change_percent >= list[k].change_percent
Ascending(list) ==
    \A j, k \in 1..Len(list) : j < k => list[j].change_percent <= list[k].change_percent
DistinctCodes(list) ==
    \A j, k \in 1..Len(list) : j # k => list[j].code # list[k].code

\* C6: with k up-eligible and m down-eligible rows, limit_up has min(k, 20)
\* entries, sorted by change_percent descending, and they are the min(k, 20)
\* highest; limit_down has min(m, 20) entries, sorted ascending, and they
\* are the most negative.
C6_SortedTopTwenty ==
    (Returned /\ StringTable) =>
        LET up == UpRows
            down == DownRows
        IN  /\ Len(result.limit_up) = Min(Cardinality(up), 20)
            /\ Descending(result.limit_up)
            /\ DistinctCodes(result.limit_up)
            /\ \A j \in 1..Len(result.limit_up) :
                  \E i \in up : result.limit_up[j].code = CodeAt(i)
            /\ \A i \in up :
                  \/ Listed(result.limit_up, i)
                  \/ \A j \in 1..Len(result.limit_up) :
                        result.limit_up[j].change_percent >= Percent(i)
            /\ Len(result.limit_down) = Min(Cardinality(down), 20)
            /\ Ascending(result.limit_down)
            /\ DistinctCodes(result.limit_down)
            /\ \A j \in 1..Len(result.limit_down) :
                  \E i \in down : result.limit_down[j].code = CodeAt(i)
            /\ \A i \in down :
                  \/ Listed(result.limit_down, i)
                  \/ \A j \in 1..Len(result.limit_down) :
                        result.limit_down[j].change_percent <= Percent(i)

\* 25 up-eligible rows, of differing change_percent: 20 are returned.
C6_Witness_TwentyFiveUp ==
    /\ Returned
    /\ Cardinality(UpRows) = 25
    /\ Len(result.limit_up) = 20
    /\ result.limit_up[1].change_percent > result.limit_up[20].change_percent

(***************************************************************************)
(* Claims about the price functions (SpecPrice)                            *)
(***************************************************************************)

TickReturned == pc = "done" /\ priced.op = "get_price_tick"
RoundReturned == pc = "done" /\ priced.op \in {"round_taiwan_price", "derive"}
BandsHolding(p) == {i \in 1..Len(PRICE_TICKS) : InBand(PRICE_TICKS[i], p)}

\* C11: for every price >= 0, get_price_tick returns the tick of the one
\* half-open band [min, max) holding the price: [0,10) 0.01, [10,50) 0.05,
\* [50,100) 0.1, [100,500) 0.5, [500,1000) 1.0, [1000,inf) 5.0; a price on a
\* band boundary (10, 50, 100, 500, 1000) gets the tick of the upper band.
C11_TickOfHalfOpenBand ==
    (TickReturned /\ arg_price >= 0) =>
        /\ Cardinality(BandsHolding(arg_price)) = 1
        /\ priced.tick = (IF arg_price < 10000 THEN 10
                          ELSE IF arg_price < 50000 THEN 50
                          ELSE IF arg_price < 100000 THEN 100
                          ELSE IF arg_price < 500000 THEN 500
                          ELSE IF arg_price < 1000000 THEN 1000
                          ELSE 5000)
        /\ (arg_price = 10000 => priced.tick = 50)
        /\ (arg_price = 50000 => priced.tick = 100)
        /\ (arg_price = 100000 => priced.tick = 500)
        /\ (arg_price = 500000 => priced.tick = 1000)
        /\ (arg_price = 1000000 => priced.tick = 5000)

\* The price 50.00, on the boundary of [10,50) and [50,100), got 0.1.
C11_Witness_OnBoundary ==
    TickReturned /\ arg_price = 50000 /\ priced.tick = 100

\* C12: the bands of PRICE_TICKS start at 0, each ends where the next one
\* begins, the last one has no upper bound; so a price >= 0 is in exactly
\* one band, and of two prices >= 0 the larger never has the smaller tick.
C12_BandsPartitionAndMonotone ==
    /\ BandFloor(1) = 0
    /\ PRICE_TICKS[Len(PRICE_TICKS)][2] = Inf
    /\ \A i \in 1..(Len(PRICE_TICKS) - 1) :
          /\ PRICE_TICKS[i][1] < PRICE_TICKS[i][2]
          /\ PRICE_TICKS[i][2] = PRICE_TICKS[i + 1][1]
    /\ TickReturned =>
          /\ arg_price >= 0 => Cardinality(BandsHolding(arg_price)) = 1
          /\ arg_other >= 0 => Cardinality(BandsHolding(arg_other)) = 1
          /\ (0 <= arg_price /\ arg_price <= arg_other) => priced.tick <= priced.other_tick
          /\ (0 <= arg_other /\ arg_other <= arg_price) => priced.other_tick <= priced.tick

\* Two prices a thousandth apart, on the two sides of a band boundary.
C12_Witness_AcrossBoundary ==
    /\ TickReturned
    /\ arg_price = 49999 /\ arg_other = 50000
    /\ priced.tick = 50 /\ priced.other_tick = 100

\* C13: for every price >= 0, round_taiwan_price(price) is an integer
\* multiple of get_price_tick(price).
C13_RoundedIsTickMultiple ==
    (RoundReturned /\ arg_price >= 0) =>
        priced.current % get_price_tick(arg_price) = 0

\* A price off the tick grid was moved onto it.
C13_Witness_OffGrid ==
    /\ RoundReturned
    /\ arg_price = 10001 /\ priced.current = 10000

\* The two tick multiples around a price > 0, and the price halfway.
LowerMultiple(p) == (p \div get_price_tick(p)) * get_price_tick(p)
HigherMultiple(p) == LowerMultiple(p) + get_price_tick(p)
Halfway(p) == 2 * (p % get_price_tick(p)) = get_price_tick(p)
Distance(a, b) == IF a <= b THEN b - a ELSE a - b

\* C14 as stated: for every price > 0 round_taiwan_price returns a tick
\* multiple at most half a tick away from the price, and a price exactly
\* halfway between two tick multiples is rounded up to the higher one.
C14_NearestTiesUp ==
    (RoundReturned /\ arg_price > 0) =>
        /\ 2 * Distance(priced.current, arg_price) <= get_price_tick(arg_price)
        /\ Halfway(arg_price) => priced.current = HigherMultiple(arg_price)

\* C14 as amended: for every price > 0 round_taiwan_price returns a tick
\* multiple at most half a tick away from the price; a price exactly halfway
\* goes to one of its two neighbours, the even multiple where the tick is
\* 0.5, 1.0 or 5.0.
C14_NearestTieEitherWay ==
    (RoundReturned /\ arg_price > 0) =>
        /\ 2 * Distance(priced.current, arg_price) <= get_price_tick(arg_price)
        /\ priced.current \in {LowerMultiple(arg_price), HigherMultiple(arg_price)}
        /\ (Halfway(arg_price) /\ IsBinaryFraction(get_price_tick(arg_price))) =>
              (priced.current \div get_price_tick(arg_price)) % 2 = 0

\* 10.075, halfway between 10.05 and 10.10, came out as 10.05.
C14_Witness_TieDown ==
    /\ RoundReturned
    /\ arg_price = 10075 /\ Halfway(arg_price)
    /\ priced.current = 10050

\* C15: round_taiwan_price returns 0 for every price <= 0 (get_price_tick
\* gives a positive tick for any price, so nothing is raised); a row whose
\* change is greater than or equal to its price gets reference price 0.
C15_NonPositiveGivesZero ==
    RoundReturned =>
        /\ get_price_tick(arg_price) > 0
        /\ get_price_tick(priced.current - arg_change) > 0
        /\ arg_price <= 0 => priced.current = 0
        /\ (priced.op = "derive" /\ arg_change >= priced.current) => priced.previous = 0

\* A row with price 10.00 and change 17.50 got reference price 0.
C15_Witness_ChangeOverPrice ==
    /\ pc = "done" /\ priced.op = "derive"
    /\ arg_price = 10000 /\ arg_change = 17500
    /\ priced.current = 10000 /\ priced.previous = 0

(***************************************************************************)
(* Claims about absent and empty input                                     *)
(***************************************************************************)

\* C17: for an input whose table is present but empty,
\* _parse_limit_stocks_data returns (it does not raise, and the result is
\* not the backup one) with limit_up = [], limit_down = [], total_scanned 0,
\* limit_up_found 0 and limit_down_found 0.
C17_EmptyTableEmptyResult ==
    (Returned /\ HasTable /\ Rows = <<>>) =>
        /\ result.returned
        /\ ~result.error
        /\ result.data_source = "twse"
        /\ result.limit_up = <<>>
        /\ result.limit_down = <<>>
        /\ result.scan_summary = Summary(0, 0, 0)

\* The empty table has been scanned.
C17_Witness_EmptyTable ==
    /\ Returned
    /\ data = Table(<<>>)
    /\ result.returned /\ ~result.error
    /\ result.scan_summary.total_scanned = 0

\* The upstream feed is absent: the request raised, the status is not 200,
\* the body is no JSON, or the decoded body has no table.
FeedAbsent ==
    \/ response.raised
    \/ response.status_code # 200
    \/ response.json = "invalid"
    \/ ~HasTable

\* C16: when the upstream feed is absent, get_real_limit_stocks /
\* get_limit_stocks return (they do not raise) the explicit no-data result:
\* limit_up = [], limit_down = [], the three scan_summary counts 0 and the
\* 'error' marker; no stock entry is returned.
C16_AbsentFeedNoData ==
    (Returned /\ FeedAbsent) =>
        /\ result.returned
        /\ result.error
        /\ result.limit_up = <<>>
        /\ result.limit_down = <<>>
        /\ result.scan_summary = Summary(0, 0, 0)

\* A 503 whose body would have decoded to a limit-up row: nothing of it is
\* returned.
C16_Witness_Status503 ==
    /\ Returned
    /\ response.status_code = 503
    /\ data = Table(<<WithCode(RowUpHard, 1)>>)
    /\ result = get_backup_limit_data

(***************************************************************************)
(* Claims about _estimate_limit_time (SpecEstimate)                        *)
(***************************************************************************)

\* The returned string read back: its hour, its minute, its minute of day.
EstimatedHour == Number(SubSeq(estimate, 1, 2))
EstimatedMinute == Number(SubSeq(estimate, 4, 5))
EstimatedMinuteOfDay == EstimatedHour * 60 + EstimatedMinute
WindowFirst == 9 * 60
WindowLast == 13 * 60 + 30
InWindow(m) == WindowFirst <= m /\ m <= WindowLast

\* C18: whatever the clock reading and the random draws, the string
\* _estimate_limit_time returns is an HH:MM between 09:00 and 13:30
\* inclusive; when the clock reading is itself between 09:00 and 13:30 the
\* returned time is not later than it.
C18_EstimateInsideSession ==
    Returned =>
        /\ Len(estimate) = 5
        /\ estimate[3] = ":"
        /\ \A k \in {1, 2, 4, 5} : IsDigit(estimate[k])
        /\ EstimatedMinute <= 59
        /\ InWindow(EstimatedMinuteOfDay)
        /\ InWindow(MinuteOfDay(now)) => EstimatedMinuteOfDay <= MinuteOfDay(now)

\* At 11:15 the estimate 09:59 was returned: an earlier hour with a minute
\* past the one of the clock.
C18_Witness_EarlierHour ==
    /\ Returned
    /\ now.hour = 11 /\ now.minute = 15
    /\ estimate = <<"0", "9", ":", "5", "9">>

(***************************************************************************)
(* Claims about _rate_limit (SpecSequential, SpecConcurrent)               *)
(***************************************************************************)

Gap(k) == returns[k].at - returns[k - 1].at
Later == 2..Len(returns)

\* C19: with two threads in _rate_limit, two returns less than
\* _min_request_interval apart do happen (the witness), and every such pair
\* comes from the unprotected field: the later caller is another thread, and
\* it had read _last_request_time before the earlier caller's assignment.
C19_CloseReturnsFromStaleRead ==
    \A k \in Later :
        Gap(k) < min_request_interval(service) =>
            /\ returns[k].thread # returns[k - 1].thread
            /\ returns[k].seen < returns[k].previous

\* Both threads read the same _last_request_time, neither waited for the
\* other, and they returned less than the interval apart.
C19_Witness_Race ==
    \E k \in Later :
        /\ returns[k].thread # returns[k - 1].thread
        /\ returns[k].seen = returns[k - 1].seen
        /\ Gap(k) < min_request_interval(service)

\* C20: with one thread, each return from _rate_limit is at least
\* _min_request_interval (12 s in views, 1.2 s in legal_stock_service) after
\* the previous one, and _last_request_time never decreases.
C20_SequentialSpacing ==
    /\ \A k \in Later :
          Gap(k) >= (IF service = "views" THEN 120 ELSE 12)
    /\ \A k \in 1..Len(returns) : returns[k].previous <= returns[k].at
    /\ last_request_time =
          (IF returns = <<>> THEN 0 ELSE returns[Len(returns)].at)

\* A second call that came a quarter of the interval after the first one
\* slept, and returned exactly one interval after it.
C20_Witness_Waited ==
    /\ service = "views"
    /\ Len(returns) >= 2
    /\ returns[2].thread = 1 /\ returns[1].thread = 1
    /\ returns[2].at - returns[1].at = 120

(***************************************************************************)
(* More claims about the price functions (SpecPrice)                       *)
(***************************************************************************)

\* C28: round_taiwan_price is idempotent: rounding what it returned gives
\* the same price again, also when the first rounding carried the price
\* onto a band boundary, where the tick changes (9.996 -> 10.00 -> 10.00).
C28_RoundingIdempotent ==
    (pc = "done" /\ priced.op = "round_again") =>
        priced.again = priced.current

\* 9.999 was carried to 10.00, the first price of the band with tick 0.05,
\* and stayed there.
C28_Witness_CarriedOntoBoundary ==
    /\ pc = "done" /\ priced.op = "round_again"
    /\ arg_price = 9999
    /\ get_price_tick(arg_price) # get_price_tick(priced.current)
    /\ priced.current = 10000 /\ priced.again = 10000

(***************************************************************************)
(* Claims about get_taiwan_market_summary (SpecSummary)                    *)
(***************************************************************************)

Summarised == pc = "done" /\ summary.returned

\* C27 as stated: the counts agree with the lists: limit_up_found =
\* len(limit_up), limit_down_found = len(limit_down), and the summary's
\* limit_up_count / limit_down_count equal limit_up_found / limit_down_found.
C27_CountsEqualLists ==
    Summarised =>
        /\ result.scan_summary.limit_up_found = Len(result.limit_up)
        /\ result.scan_summary.limit_down_found = Len(result.limit_down)
        /\ summary.limit_up_count = summary.scan_summary.limit_up_found
        /\ summary.limit_down_count = summary.scan_summary.limit_down_found

\* C27 as amended: limit_up_found / limit_down_found count the classified
\* rows before the lists are cut to 20, and limit_up_count /
\* limit_down_count are the lengths of the lists returned: each count of
\* the summary is the smaller of 20 and the found count, so the two agree
\* exactly when no more than 20 rows were found.
C27_CountsAreCutFound ==
    Summarised =>
        /\ Len(result.limit_up) = Min(TopN, result.scan_summary.limit_up_found)
        /\ Len(result.limit_down) = Min(TopN, result.scan_summary.limit_down_found)
        /\ summary.limit_up_count = Len(result.limit_up)
        /\ summary.limit_down_count = Len(result.limit_down)
        /\ summary.scan_summary = result.scan_summary
        /\ summary.limit_up_stocks = result.limit_up
        /\ summary.limit_down_stocks = result.limit_down

\* 25 rows were found up, 20 are listed and counted.
C27_Witness_MoreThanTwenty ==
    /\ Summarised
    /\ summary.scan_summary.limit_up_found = 25
    /\ summary.limit_up_count = 20
    /\ Len(summary.limit_up_stocks) = 20

(***************************************************************************)
(* More claims about _rate_limit (SpecSequential)                          *)
(***************************************************************************)

\* One minute, in tenths of a second.
Minute == 60 * 10

\* C21: sequential callers of legal_stock_service.LegalStockService stay
\* within the quota its comment states: in any 60-second window at most 5
\* requests pass _rate_limit, that is, the sixth return counted from any
\* return is at least 60 seconds after it.
C21_FivePerMinute ==
    service = "legal_stock_service" =>
        \A i \in 1..Len(returns) : \A j \in 1..Len(returns) :
            j >= i + 5 => returns[j].at - returns[i].at >= Minute

(***************************************************************************)
(* Claims about views.LegalStockService.get_real_stock_data (SpecQuote)    *)
(***************************************************************************)

Http == quote_request.http
Quote == Http.quote

\* A quote whose every field converts: the symbol, price, change and volume
\* are strings, price and change are numbers, and the change percent is
\* absent or a number followed by '%'.
FullyParsed ==
    /\ Quote.sym.t = "str"
    /\ Quote.price.t = "str" /\ float(Quote.price.s).ok
    /\ Quote.change.t = "str" /\ float(Quote.change.s).ok
    /\ Quote.volume.t = "str"
    /\ \/ Quote.percent.t = "missing"
       \/ Quote.percent.t = "str" /\ float(Remove(Quote.percent.s, "%")).ok

\* C22: get_real_stock_data of views.LegalStockService returns a quote for
\* every symbol (never None, never an exception): with the API key missing,
\* a status other than 200, a body without 'Global Quote', a quote without
\* the symbol key, or a parsing / network failure it returns mock data
\* tagged 'mock_enhanced'; only a fully parsed quote is tagged 'success'.
C22_QuoteOrMock ==
    Returned =>
        /\ quote_result.outcome = "returned"
        /\ quote_result.api_status \in {"success", "mock_enhanced"}
        /\ (\/ quote_request.api_key # "set"
            \/ Http.raised
            \/ Http.status_code # 200
            \/ Http.body # "quote"
            \/ Quote.sym.t = "missing"
            \/ ~FullyParsed) =>
               /\ quote_result.api_status = "mock_enhanced"
               /\ quote_result.symbol = upper(quote_request.symbol)
        /\ quote_result.api_status = "success" =>
               /\ quote_request.api_key = "set"
               /\ ~Http.raised /\ Http.status_code = 200 /\ Http.body = "quote"
               /\ FullyParsed

\* The rate-limit notice ({'Note': ...}) with status 200: mock data.
C22_Witness_RateLimitNote ==
    /\ Returned
    /\ quote_request.api_key = "set"
    /\ ~Http.raised /\ Http.status_code = 200 /\ Http.body = "note"
    /\ quote_request.symbol = <<"a", "a", "p", "l">>
    /\ quote_result.api_status = "mock_enhanced"
    /\ quote_result.symbol = <<"A", "A", "P", "L">>

\* The replies of the add requests, and the rows a symbol has.
Replied == {t \in DOMAIN replies : replies[t].line # "none"}
RowsOf(symbol) == {row \in watchlist.rows : row.symbol = symbol}

\* C29: every symbol stored in the watchlist satisfies validate_symbol,
\* whichever endpoint added it.
C29_StoredSymbolsValid ==
    \A row \in watchlist.rows : validate_symbol(row.symbol)

\* C23: under any interleaving of add requests and removals the watchlist
\* holds at most one row per symbol, and an add that finds its symbol in the
\* table, at its look at the table or at its create, returns an error
\* response and leaves the table as it was.
C23_OneRowPerSymbol ==
    /\ \A symbol \in Symbols(watchlist) : Cardinality(RowsOf(symbol)) = 1
    /\ \A t \in Replied :
           LET reply == replies[t]
           IN  (\E row \in reply.before : row.symbol = reply.symbol) =>
                   /\ IsError(reply.status)
                   /\ reply.after = reply.before

\* Two requests for the same symbol both passed exists() before either
\* created its row: the first create went through, the second was refused
\* by the unique constraint.
C23_Witness_RaceRefused ==
    /\ DOMAIN replies = RequestThreads
    /\ replies[1].line = "create" /\ replies[1].status = Ok
    /\ replies[2].line = "create" /\ replies[2].status = BadRequest
    /\ replies[1].symbol = replies[2].symbol
    /\ replies[1].before = {}
    /\ replies[2].before = replies[1].after
    /\ Cardinality(RowsOf(replies[2].symbol)) = 1

\* The holding of the posted stock before and after the last POST.
HeldBefore == {row \in posted.before : row.stock = posted.symbol}
HeldAfter == {row \in posted.after : row.stock = posted.symbol}
OldHolding == CHOOSE row \in HeldBefore : TRUE
NewHolding == CHOOSE row \in HeldAfter : TRUE
WellFormedPost == posted.line \in {"division", "merged", "created"}
OnePerStock ==
    \A row \in holdings.rows : Cardinality(Holding(holdings, row.stock)) = 1
\* The value of a holding, and of what the POST adds: quantity x cost.
HoldingValue(row) == row.quantity * row.average_cost
AddedValue == posted.quantity * posted.average_cost
Abs(x) == IF x < 0 THEN -x ELSE x
Cent == Scale \div 100

\* C24 as stated: every well-formed POST for a held stock merges, the new
\* quantity is old + added, and new quantity x new average cost is exactly
\* the old value plus the added value; one holding per stock.
C24_ExactWeightedAverage ==
    /\ OnePerStock
    /\ (WellFormedPost /\ HeldBefore # {}) =>
           /\ posted.line = "merged"
           /\ NewHolding.quantity = OldHolding.quantity + posted.quantity
           /\ HoldingValue(NewHolding) = HoldingValue(OldHolding) + AddedValue

\* C24, amended: a POST for a held stock that is answered 200 merges into the
\* one holding: the stored quantity is old + added and the stored average
\* cost the quantity-weighted average, each rounded to two decimal places
\* (the average cost is less than a cent off); a well-formed POST for a held
\* stock is refused only when old + added is 0, and then the table is left
\* as it was; there is one holding per stock.
C24_WeightedAverageToCents ==
    /\ OnePerStock
    /\ (WellFormedPost /\ HeldBefore # {}) =>
           LET total == OldHolding.quantity + posted.quantity
               value == HoldingValue(OldHolding) + AddedValue
           IN  /\ Cardinality(HeldBefore) = 1
               /\ IF total = 0
                  THEN /\ posted.status = ServerError
                       /\ posted.after = posted.before
                  ELSE /\ posted.status = Ok
                       /\ posted.line = "merged"
                       /\ posted.after \ {NewHolding} = posted.before \ {OldHolding}
                       /\ NewHolding.id = OldHolding.id
                       /\ NewHolding.quantity = Round2(total)
                       /\ NewHolding.average_cost % Cent = 0
                       /\ Abs(NewHolding.average_cost * total - value) < Cent * Abs(total)
                       /\ (posted.quantity % Cent = 0) => NewHolding.quantity = total

\* 1 share held at 10.00 and 1 bought at 10.01: the average 10.005 is
\* stored as 10.00, and 2 x 10.00 is 20.00, not 20.01.
C24_Witness_AverageRounded ==
    /\ posted.line = "merged"
    /\ HeldBefore # {} /\ HeldAfter # {}
    /\ OldHolding.quantity = 1 * Scale /\ OldHolding.average_cost = 10 * Scale
    /\ posted.quantity = 1 * Scale /\ posted.average_cost = 10 * Scale + Cent
    /\ NewHolding.quantity = 2 * Scale
    /\ NewHolding.average_cost = 10 * Scale
    /\ HoldingValue(NewHolding) # HoldingValue(OldHolding) + AddedValue

\* The price_update messages a client got, by position in its inbox.
PriceUpdates(c) == {i \in 1..Len(inbox[c]) : inbox[c][i].type = "price_update"}

\* C25: however many clients are connected, a client gets one price_update
\* per 3-second period: no two of the price_update messages it receives are
\* less than a period apart.
C25_OneUpdatePerPeriod ==
    \A c \in DOMAIN inbox :
        \A i, j \in PriceUpdates(c) :
            i < j => inbox[c][j].at - inbox[c][i].at >= UpdatePeriod

\* C26: a consumer that has disconnected issues no further group_send, so
\* every group_send comes from a connected consumer and reaches a group
\* with at least that consumer in it.
C26_NoBroadcastAfterDisconnect ==
    \A k \in 1..Len(broadcasts) :
        /\ broadcasts[k].state = "connected"
        /\ broadcasts[k].sender \in broadcasts[k].to

====
